---- MODULE Spec2Model ----
(***************************************************************************)
(* Model of the deterministic orchestration layer of the Dashboard AI      *)
(* Agent service: the in-memory rate limiter (services/core/               *)
(* rate_limiter.py), the chat endpoints with their per-session history     *)
(* store (services/api/endpoints/chat.py), the LLM gateway with its        *)
(* provider fallback and its JSON-producing methods (services/llm/         *)
(* gemini_service.py) and the intent, entity and quick-insight functions   *)
(* of the agent (services/llm/ai_agent.py).                                *)
(*                                                                         *)
(* Spec is the service handling chat requests, SpecLimiter the rate        *)
(* limiter called directly, SpecGateway the gateway's construction and     *)
(* structured methods (a call that reaches the provider waits in inflight  *)
(* and ends in a second step), SpecAgent the stateless functions of the    *)
(* agent.                                                                  *)
(* SpecService adds the analysis and insights routers to the chat          *)
(* endpoints, SpecUsers is that service with requests of two users, and    *)
(* SpecLive is Spec with the one fairness the code's timeouts justify (the *)
(* secondary provider's call ends).  SpecPrompt is the chat router with a  *)
(* stored history, and GeminiService.chat called directly with any         *)
(* history; SpecQuota the chat router with more handlers in flight and one *)
(* request more than handlers; SpecLock the chat router with every block   *)
(* of the rate limiter's lock entered and left in separate steps; and      *)
(* SpecKeys one operation applied to a process whose other keys hold       *)
(* state.                                                                  *)
(* SpecChat is Spec with every request of ChatRequests sent to the chat     *)
(* endpoint; the requests of the other specifications carry a message of   *)
(* no intent, whose response gets no appendix.                             *)
(*                                                                         *)
(* A process is started by importing services.main.  With the Settings     *)
(* class of config.py that import raises (the gateway reads two fields the *)
(* class does not declare): the start state NoService, in which no request *)
(* is handled and no function of the gateway or the agent is called (the   *)
(* rate limiter, which imports neither, can still be called directly).     *)
(* Every other start state is a process whose Settings declares the two    *)
(* fields.                                                                 *)
(*                                                                         *)
(* Time is a discrete clock `now`; one calendar day is Day ticks long and  *)
(* tick 0 is a midnight.  Python's None is the value None (-1): counts     *)
(* and timestamps are never negative.  A text is a sequence of tokens      *)
(* (provider responses) or of characters (chat messages).                  *)
(***************************************************************************)
EXTENDS Integers, Sequences, FiniteSets, TLC

\* ---------------------------------------------------------------- bounds
\* clock ticks per calendar day (the resolution of the model clock)
Day == 2
\* the clock stops after two full days, so a window can be missed entirely
MaxNow == 2 * Day + 1
\* RateLimiter called directly: largest count and largest limit explored
MaxCount == 3
MaxLimit == 3

\* chat handlers in flight together, and chat requests sent in one run
MaxHandlers == 2
MaxMsgs == 2

Users == {"u1", "u2"}
Actions == {"chat", "analysis"}
\* the callers of the RateLimiter when it is called directly
DirectUsers == {"u1"}
\* the users sending requests to the endpoints
ChatUsers == {"u1"}
Limits == (0 - 1) .. MaxLimit
\* ChatRequest.session_id; "" stands for an absent (falsy) session_id
SessionIds == {"", "s1"}

\* ------------------------------------------------------ program constants
None == 0 - 1
\* action_type = None in reset_user_limits (the strings' falsy value)
NoAction == ""
CHAT_DAILY_LIMIT == 100
ANALYSIS_DAILY_LIMIT == 50
\* `len(...) > 20` and `[-20:]` of the chat handler
HISTORY_CAP == 20

VARIABLES
    limits,    \* RateLimiter._limits: user -> action -> record
    now,       \* datetime.utcnow()
    rl,        \* the RateLimiter call made last: arguments, state before, result
    incs,      \* per key: increment_count calls since the count was last zeroed
    lock,      \* RateLimiter._lock: free, or held
    llm,       \* GeminiService: the attributes set by __init__
    chat_sessions, \* chat.py chat_sessions: session_id -> list of turns
    inflight,  \* the chat handlers suspended in a provider call: the
               \* request each is serving and the call it waits for
    resp,      \* the response sent by the last step, if it sent one
    sent,      \* chat messages drawn so far
    appended,  \* per session: the turns appended since its last clear
    cleared,   \* the sessions cleared and not appended to since
    fn         \* the function called last outside a request handler, with
               \* its arguments and what it returned, or the prompt composed
               \* by the last step

limiter_vars == <<limits, now, rl, incs, lock>>
app_vars == <<llm, chat_sessions, inflight, resp, sent, appended, cleared, fn>>
vars == <<limits, now, rl, incs, lock, llm, chat_sessions, inflight, resp,
          sent, appended, cleared, fn>>

\* ------------------------------------------------------------ RateLimiter
\* One entry of _limits[user][action].  present = FALSE: the key is not in
\* the dict; count / reset_at = None: the entry has no such item.
NoEntry == [present |-> FALSE, count |-> None, reset_at |-> None]
EmptyEntry == [present |-> TRUE, count |-> None, reset_at |-> None]

\* dict.get(key, default)
Get(v, default) == IF v = None THEN default ELSE v

Max(a, b) == IF a >= b THEN a ELSE b

\* datetime.replace(hour=0, minute=0, second=0, microsecond=0)
replace_midnight(t) == t - (t % Day)

\* mutant: one day after now, not truncated to midnight
next_reset_at_rolling(t) == t + Day

\* (now + timedelta(days=1)).replace(hour=0, ...)
next_reset_at(t) == replace_midnight(t + Day)

\* mutant: the boundary instant itself still belongs to the old window
needs_reset_strict(e, t) == e.reset_at = None \/ t > e.reset_at

\* `not reset_at or now >= reset_at`
needs_reset(e, t) == e.reset_at = None \/ t >= e.reset_at

\* mutant: every check starts a new window
check_entry_always(e, t) ==
    [present |-> TRUE, count |-> 0, reset_at |-> next_reset_at(t)]

\* the entry after the reset branch of check_rate_limit
check_entry(e, t) ==
    IF needs_reset(e, t)
    THEN [present |-> TRUE, count |-> 0, reset_at |-> next_reset_at(t)]
    ELSE [e EXCEPT !.present = TRUE]

\* mutant: a request is still allowed when the count equals the limit
check_rate_limit_inclusive(L, t, u, a, limit) ==
    LET e == check_entry(L[u][a], t)
        current_count == Get(e.count, 0)
    IN  [limits |-> [L EXCEPT ![u][a] = e],
         result |-> [allowed |-> current_count <= limit,
                     remaining |-> Max(0, limit - current_count),
                     limit |-> limit,
                     reset_at |-> e.reset_at,
                     current_count |-> current_count]]

\* check_rate_limit: new table and the returned dict
check_rate_limit(L, t, u, a, limit) ==
    LET e == check_entry(L[u][a], t)
        current_count == Get(e.count, 0)
    IN  [limits |-> [L EXCEPT ![u][a] = e],
         result |-> [allowed |-> current_count < limit,
                     remaining |-> Max(0, limit - current_count),
                     limit |-> limit,
                     reset_at |-> e.reset_at,
                     current_count |-> current_count]]

\* mutant: the entry is replaced by a fresh one, losing reset_at
increment_count_fresh(L, u, a) ==
    LET n == Get(L[u][a].count, 0) + 1
    IN  [limits |-> [L EXCEPT ![u][a] = [present |-> TRUE, count |-> n,
                                         reset_at |-> None]],
         result |-> n]

\* mutant: the stored count is not read back, every call stores 1
increment_count_one(L, u, a) ==
    [limits |-> [L EXCEPT ![u][a] = [present |-> TRUE, count |-> 1,
                                     reset_at |-> L[u][a].reset_at]],
     result |-> 1]

\* increment_count: new table and the returned count
increment_count(L, u, a) ==
    LET n == Get(L[u][a].count, 0) + 1
    IN  [limits |-> [L EXCEPT ![u][a] = [present |-> TRUE, count |-> n,
                                         reset_at |-> L[u][a].reset_at]],
         result |-> n]

\* get_usage_stats: the action types present for the user, with defaults
get_usage_stats(L, t, u) ==
    [a \in {b \in Actions : L[u][b].present} |->
        [count |-> Get(L[u][a].count, 0),
         reset_at |-> Get(L[u][a].reset_at, t + Day)]]

\* reset_user_limits: a falsy action_type (None, "") resets every action type
reset_user_limits(L, u, a) ==
    IF a # NoAction
    THEN IF L[u][a].present THEN [L EXCEPT ![u][a] = EmptyEntry] ELSE L
    ELSE [L EXCEPT ![u] = [b \in Actions |-> NoEntry]]

\* asyncio.Lock: _locked is False or True
Free == "free"
Held == "held"

\* `async with self._lock:` around a body without a suspension point: the
\* lock is acquired (it must be free) and released before the method returns
async_with_lock(lk) == Free

\* the local variable rate_check of a handler, with the arguments of the
\* check that filled it
RateCheck(u, a, result) == [user |-> u, action |-> a, result |-> result]
NoRateCheck ==
    RateCheck("", "", [allowed |-> FALSE, remaining |-> None, limit |-> None,
                       reset_at |-> None, current_count |-> None])

\* mutant: the handler goes on whatever the check returned
admitted_always(rate_check) == TRUE

\* `if not rate_check['allowed']: raise HTTPException(status_code=429, ...)`
admitted(rate_check) == rate_check.allowed

\* ---------------------------------------------------- observation record
NoCall ==
    [op |-> "none", user |-> "", action |-> "", limit |-> None, at |-> None,
     pre |-> NoEntry, pre_incs |-> 0,
     allowed |-> FALSE, remaining |-> None, reset_at |-> None,
     current_count |-> None, new_count |-> None,
     stats |-> [a \in {} |-> NoEntry],
     rate_check |-> NoRateCheck]

CheckCall(L, t, n, u, a, limit) ==
    LET r == check_rate_limit(L, t, u, a, limit).result
    IN  [NoCall EXCEPT !.op = "check", !.user = u, !.action = a,
                       !.limit = limit, !.at = t, !.pre = L[u][a],
                       !.pre_incs = n[u][a],
                       !.allowed = r.allowed, !.remaining = r.remaining,
                       !.reset_at = r.reset_at,
                       !.current_count = r.current_count]

IncrementCall(L, t, n, u, a) ==
    [NoCall EXCEPT !.op = "increment", !.user = u, !.action = a, !.at = t,
                   !.pre = L[u][a], !.pre_incs = n[u][a],
                   !.new_count = increment_count(L, u, a).result]

\* the increments counted since the key's count was last zeroed
incs_after_check(n, L, t, u, a) ==
    IF needs_reset(L[u][a], t) THEN [n EXCEPT ![u][a] = 0] ELSE n

incs_after_reset(n, u, a) ==
    IF a # NoAction THEN [n EXCEPT ![u][a] = 0]
    ELSE [n EXCEPT ![u] = [b \in Actions |-> 0]]

\* ----------------------------------------------------------- GeminiService
\* GeminiService.__init__: the attributes read later, from the settings
\* (api_key / cerebras_api_key set or not) and whether the SDK set-up worked
GeminiService(api_key, sdk_ok, cerebras_api_key) ==
    IF ~api_key
    THEN [initialized |-> cerebras_api_key, has_model |-> FALSE,
          cerebras_api_key |-> cerebras_api_key]
    ELSE IF sdk_ok
    THEN [initialized |-> TRUE, has_model |-> TRUE,
          cerebras_api_key |-> cerebras_api_key]
    ELSE [initialized |-> cerebras_api_key, has_model |-> FALSE,
          cerebras_api_key |-> cerebras_api_key]

Gateways ==
    {GeminiService(k, ok, c) : k \in BOOLEAN, ok \in BOOLEAN, c \in BOOLEAN}

\* config.py: the fields class Settings declares; extra = "ignore", so an
\* instance has no others
SettingsFields ==
    {"app_name", "app_version", "debug", "gemini_api_key", "host", "port",
     "cors_origins", "chat_daily_limit", "analysis_daily_limit",
     "database_url", "db_host", "db_port", "db_name", "db_user",
     "db_password", "nodejs_backend_url", "log_level"}

\* __init__, lines 30-32: the attributes of settings it reads
SettingsRead == {"gemini_api_key", "cerebras_api_key", "cerebras_model"}

\* the environment of the process: which of the keys are set
Environments == [gemini_api_key : BOOLEAN, cerebras_api_key : BOOLEAN]
\* no key is set
NoKeys == [gemini_api_key |-> FALSE, cerebras_api_key |-> FALSE]

\* GeminiService() with a Settings class that declares `fields`: reading an
\* attribute the class does not declare raises AttributeError
construct(fields, env, sdk_ok) ==
    IF SettingsRead \subseteq fields
    THEN [raised |-> FALSE,
          obj |-> GeminiService(env.gemini_api_key, sdk_ok, env.cerebras_api_key)]
    ELSE [raised |-> TRUE, obj |-> GeminiService(FALSE, FALSE, FALSE)]

\* gemini_service = GeminiService() at import, with the Settings of config.py
new_GeminiService(env, sdk_ok) == construct(SettingsFields, env, sdk_ok)

\* The process that did not start.  main.py line 12 imports
\* services.llm.gemini_service, whose last statement builds the gateway:
\* when that raises, the import of services.main raises, no application
\* object exists and no request is ever handled.
NoService ==
    [initialized |-> FALSE, has_model |-> FALSE, cerebras_api_key |-> FALSE,
     raised |-> "AttributeError"]

\* import services.main: the gateway of the process, or NoService
import_main(fields, env, sdk_ok) ==
    IF construct(fields, env, sdk_ok).raised THEN NoService
    ELSE construct(fields, env, sdk_ok).obj

\* The Settings classes a process is started with: the class of config.py,
\* with which every start fails, and that class with the two fields the
\* gateway reads declared as well, the one configuration in which the
\* service runs.
SettingsClasses == {SettingsFields, SettingsFields \cup SettingsRead}

\* the process of llm handles requests
Serving == "raised" \notin DOMAIN llm

\* what the primary call (model.generate_content) can come back with: a
\* response with text, one whose text is only white space, one without
\* text, or an exception (transport, timeout, blocked)
GeminiOutcomes == {"text", "blank", "empty", "error"}
\* what _call_cerebras can come back with: content, content that is empty
\* or only white space, or an exception (transport, timeout, HTTP status,
\* a body without content)
CerebrasOutcomes == {"text", "blank", "error"}

\* the texts chat returns: a reply, or the empty string
Reply == "reply"
Blank == ""

\* one provider attempt of a chat call, and whether it produced the answer
Attempt(p, ok) == [p |-> p, ok |-> ok]

\* GeminiService.chat, lines 118-119 and 163-166: where a call stands when
\* it is first suspended, or what it returns without being suspended.
\* Without a model object `self.model` raises before any request is made;
\* the handler of line 173 catches it like a failed primary call.
chat_start(g) ==
    IF ~g.initialized
    THEN [next |-> "return", by |-> "template", text |-> Reply, attempts |-> <<>>]
    ELSE IF g.has_model
    THEN [next |-> "gemini", by |-> "", text |-> Blank, attempts |-> <<>>]
    ELSE IF g.cerebras_api_key
    THEN [next |-> "cerebras", by |-> "", text |-> Blank,
          attempts |-> <<Attempt("gemini", FALSE)>>]
    ELSE [next |-> "return", by |-> "template", text |-> Reply,
          attempts |-> <<Attempt("gemini", FALSE)>>]

\* GeminiService.chat, lines 168-186: the primary call has come back
after_gemini_eager(g, outcome) ==
    IF g.cerebras_api_key
    THEN [next |-> "cerebras", by |-> "", text |-> Blank,
          attempts |-> <<Attempt("gemini", outcome \in {"text", "blank"})>>]
    ELSE [next |-> "return", by |-> "template", text |-> Reply,
          attempts |-> <<Attempt("gemini", FALSE)>>]

after_gemini(g, outcome) ==
    IF outcome = "text"
    THEN [next |-> "return", by |-> "gemini", text |-> Reply,
          attempts |-> <<Attempt("gemini", TRUE)>>]
    ELSE IF outcome = "blank"
    THEN [next |-> "return", by |-> "gemini", text |-> Blank,
          attempts |-> <<Attempt("gemini", TRUE)>>]
    ELSE IF g.cerebras_api_key
    THEN [next |-> "cerebras", by |-> "", text |-> Blank,
          attempts |-> <<Attempt("gemini", FALSE)>>]
    ELSE [next |-> "return", by |-> "template", text |-> Reply,
          attempts |-> <<Attempt("gemini", FALSE)>>]

\* GeminiService.chat, lines 178-186: the secondary call has come back
after_cerebras_raises(attempts, outcome) ==
    IF outcome = "text"
    THEN [next |-> "return", by |-> "cerebras", text |-> Reply,
          attempts |-> Append(attempts, Attempt("cerebras", TRUE))]
    ELSE IF outcome = "blank"
    THEN [next |-> "return", by |-> "cerebras", text |-> Blank,
          attempts |-> Append(attempts, Attempt("cerebras", TRUE))]
    ELSE [next |-> "raise", by |-> "", text |-> Blank,
          attempts |-> Append(attempts, Attempt("cerebras", FALSE))]

after_cerebras(attempts, outcome) ==
    IF outcome = "text"
    THEN [next |-> "return", by |-> "cerebras", text |-> Reply,
          attempts |-> Append(attempts, Attempt("cerebras", TRUE))]
    ELSE IF outcome = "blank"
    THEN [next |-> "return", by |-> "cerebras", text |-> Blank,
          attempts |-> Append(attempts, Attempt("cerebras", TRUE))]
    ELSE [next |-> "return", by |-> "template", text |-> Reply,
          attempts |-> Append(attempts, Attempt("cerebras", FALSE))]

\* ------------------------------------------------------- session history
\* session_id = request.session_id or f"default_{current_user}"
session_of(sid, u) == IF sid # "" THEN sid ELSE "default_" \o u

AllSessions == {session_of(sid, u) : sid \in SessionIds, u \in ChatUsers}

\* one entry of a session list: {"role": ..., "content": ...}; the content
\* of a user turn is the text of chat message n, that of an assistant turn
\* the response to it
Turn(role, n) == [role |-> role, content |-> n]

\* the turns of a list, and the exchange of chat message n
TurnsOf(lst) == {lst[i] : i \in DOMAIN lst}
ExchangeOf(n) == <<Turn("user", n), Turn("assistant", n)>>

\* chat_sessions.get(session_id, [])
session_get(cs, s) == IF s \in DOMAIN cs THEN cs[s] ELSE <<>>

\* lst[-n:]
LastN(lst, n) ==
    IF Len(lst) <= n THEN lst ELSE SubSeq(lst, Len(lst) - n + 1, Len(lst))

\* mutant: the cap keeps the first entries and drops the newest
truncate_front(lst) ==
    IF Len(lst) > HISTORY_CAP THEN SubSeq(lst, 1, HISTORY_CAP) ELSE lst

\* mutant: the cap is applied one entry too early
truncate_odd(lst) ==
    IF Len(lst) > HISTORY_CAP - 1 THEN LastN(lst, HISTORY_CAP - 1) ELSE lst

\* `if len(lst) > 20: lst = lst[-20:]`
truncate(lst) ==
    IF Len(lst) > HISTORY_CAP THEN LastN(lst, HISTORY_CAP) ELSE lst

\* the store with session s bound to lst
session_put(cs, s, lst) ==
    [t \in DOMAIN cs \cup {s} |-> IF t = s THEN lst ELSE cs[t]]

\* mutant: only the user turn is stored
append_exchange_user_only(cs, s, n) ==
    session_put(cs, s, truncate(session_get(cs, s) \o <<Turn("user", n)>>))

\* chat, lines 145-160: create the list if needed, append the user turn
\* and the assistant turn, keep the last 20 entries
append_exchange(cs, s, n) ==
    session_put(cs, s,
        truncate(session_get(cs, s) \o <<Turn("user", n), Turn("assistant", n)>>))

\* mutant: the session is left in the store
clear_session_kept(cs, s) == cs

\* mutant: the whole store is emptied, not the one session
clear_session_all(cs, s) ==
    IF s \in DOMAIN cs THEN [t \in {} |-> <<>>] ELSE cs

\* clear_chat_history: `if session_id in chat_sessions: del ...`
clear_session(cs, s) ==
    IF s \in DOMAIN cs THEN [t \in DOMAIN cs \ {s} |-> cs[t]] ELSE cs

\* get_chat_history: the ChatMessage list built from the session
chat_messages(cs, s) ==
    [i \in 1 .. Len(session_get(cs, s)) |->
        [message_id |-> <<s, i - 1>>, session_id |-> s,
         role |-> session_get(cs, s)[i].role,
         content |-> session_get(cs, s)[i].content]]

\* ------------------------------------------------------------- responses
NoStore == [s \in {} |-> <<>>]

\* the appendix _enhance_response puts behind a text: none, the alert
\* summary with len(alerts), or the power note with total_power
NoFooter == [kind |-> "none", n |-> None]
Footer(kind, n) == [kind |-> kind, n |-> n]

\* a response text: the text chat returned (a reply or a template, or the
\* empty string) and the appendix that follows it
Text(body, footer) == [body |-> body, footer |-> footer]

NoResp ==
    [op |-> "none", status |-> 0, user |-> "", session |-> "", msg |-> 0,
     by |-> "", text |-> Text(Blank, NoFooter), attempts |-> <<>>,
     ai_enabled |-> FALSE,
     messages |-> <<>>, total |-> 0,
     limit |-> None, remaining |-> None, reset_at |-> None,
     usage |-> [a \in {} |-> NoEntry], before |-> NoStore]

\* the history a process that has served PriorExchanges chat requests of
\* session "s1" holds for it
PriorExchanges == (HISTORY_CAP \div 2) - 1

RECURSIVE Exchanges(_, _)
Exchanges(from, to) ==
    IF from > to THEN <<>>
    ELSE <<Turn("user", from), Turn("assistant", from)>> \o Exchanges(from + 1, to)

\* no function has been called yet
NoFn == [op |-> "none"]

\* --------------------------------------------- RateLimiter called directly
\* A fresh process.
ColdApp ==
    /\ chat_sessions = NoStore
    /\ appended = [s \in AllSessions |-> <<>>]
    /\ cleared = {}
    /\ fn = NoFn

ColdLimiter ==
    /\ limits = [u \in Users |-> [a \in Actions |-> NoEntry]]
    /\ now = 0
    /\ rl = NoCall
    /\ incs = [u \in Users |-> [a \in Actions |-> 0]]
    /\ lock = Free

Tick(until) ==
    /\ now < until
    /\ now' = now + 1
    /\ UNCHANGED <<limits, rl, incs, lock>>
    /\ UNCHANGED app_vars

CheckRateLimit(u, a, limit) ==
    /\ lock = Free
    /\ lock' = async_with_lock(lock)
    /\ limits' = check_rate_limit(limits, now, u, a, limit).limits
    /\ rl' = CheckCall(limits, now, incs, u, a, limit)
    /\ incs' = incs_after_check(incs, limits, now, u, a)
    /\ UNCHANGED now
    /\ UNCHANGED app_vars

IncrementCount(u, a) ==
    /\ Get(limits[u][a].count, 0) < MaxCount
    /\ lock = Free
    /\ lock' = async_with_lock(lock)
    /\ limits' = increment_count(limits, u, a).limits
    /\ rl' = IncrementCall(limits, now, incs, u, a)
    /\ incs' = [incs EXCEPT ![u][a] = @ + 1]
    /\ UNCHANGED now
    /\ UNCHANGED app_vars

GetUsageStats(u) ==
    /\ lock = Free
    /\ lock' = async_with_lock(lock)
    /\ rl' = [NoCall EXCEPT !.op = "stats", !.user = u, !.at = now,
                            !.stats = get_usage_stats(limits, now, u)]
    /\ UNCHANGED <<limits, now, incs>>
    /\ UNCHANGED app_vars

ResetUserLimits(u, a) ==
    /\ limits' = reset_user_limits(limits, u, a)
    /\ rl' = [NoCall EXCEPT !.op = "reset", !.user = u, !.at = now,
                            !.action = a]
    /\ incs' = incs_after_reset(incs, u, a)
    /\ UNCHANGED <<now, lock>>
    /\ UNCHANGED app_vars

NextLimiter ==
    \/ Tick(MaxNow)
    \/ \E u \in DirectUsers, a \in Actions, limit \in Limits :
          CheckRateLimit(u, a, limit)
    \/ \E u \in DirectUsers, a \in Actions : IncrementCount(u, a)
    \/ \E u \in DirectUsers : GetUsageStats(u)
    \/ \E u \in DirectUsers, a \in Actions \cup {NoAction} :
          ResetUserLimits(u, a)

InitLimiter ==
    /\ ColdLimiter
    /\ ColdApp
    /\ llm = import_main(SettingsFields, NoKeys, FALSE)
    /\ inflight = {}
    /\ resp = NoResp
    /\ sent = 0

SpecLimiter == InitLimiter /\ [][NextLimiter]_vars

\* the sequences over S of length at most n
RECURSIVE SeqsUpTo(_, _)
SeqsUpTo(S, n) ==
    IF n = 0 THEN {<<>>}
    ELSE SeqsUpTo(S, n - 1) \cup
         {Append(q, x) : q \in {t \in SeqsUpTo(S, n - 1) : Len(t) = n - 1}, x \in S}

\* ---------------------------------------------------------------- AIAgent
\* A message is a text: a sequence of characters.  WordChars are the
\* characters a regular expression counts as \w; the space is the only
\* other character of the messages explored.
Letters ==
    {"a", "b", "c", "d", "e", "f", "g", "h", "i", "j", "k", "l", "m", "n",
     "o", "p", "q", "r", "s", "t", "u", "v", "w", "x", "y", "z"}
Digits == {"0", "1", "2", "3", "4", "5", "6", "7", "8", "9"}
Capitals == [C |-> "c", O |-> "o", T |-> "t"]
WordChars == Letters \cup Digits \cup DOMAIN Capitals

\* str.lower()
lower(t) ==
    [i \in DOMAIN t |-> IF t[i] \in DOMAIN Capitals THEN Capitals[t[i]] ELSE t[i]]

\* QuestionIntent, in the order of declaration
QuestionIntent ==
    <<"status", "alerts", "energy", "cost", "control", "anomaly", "comparison",
      "trend", "schedule", "maintenance", "safety", "optimization", "history", "forecast",
      "general">>

\* intent_keywords: its keys in insertion order, and the list of each
KeywordIntents == SubSeq(QuestionIntent, 1, Len(QuestionIntent) - 1)

intent_keywords ==
    [status |->
        <<<<"s","t","a","t","u","s">>, <<"s","t","a","t","e">>,
          <<"r","u","n","n","i","n","g">>, <<"o","n">>, <<"o","f","f">>,
          <<"a","c","t","i","v","e">>, <<"c","u","r","r","e","n","t">>,
          <<"w","h","a","t"," ","i","s">>, <<"s","h","o","w"," ","m","e">>,
          <<"d","i","s","p","l","a","y">>, <<"c","h","e","c","k">>>>,
     alerts |->
        <<<<"a","l","e","r","t">>, <<"w","a","r","n","i","n","g">>,
          <<"a","l","a","r","m">>, <<"p","r","o","b","l","e","m">>,
          <<"i","s","s","u","e">>, <<"e","r","r","o","r">>,
          <<"n","o","t","i","f","i","c","a","t","i","o","n">>,
          <<"c","r","i","t","i","c","a","l">>, <<"u","r","g","e","n","t">>,
          <<"d","a","n","g","e","r">>>>,
     energy |->
        <<<<"e","n","e","r","g","y">>, <<"p","o","w","e","r">>,
          <<"w","a","t","t">>, <<"k","w","h">>,
          <<"c","o","n","s","u","m","p","t","i","o","n">>,
          <<"u","s","a","g","e">>,
          <<"e","l","e","c","t","r","i","c","i","t","y">>,
          <<"d","r","a","w">>, <<"l","o","a","d">>>>,
     cost |->
        <<<<"c","o","s","t">>, <<"p","r","i","c","e">>, <<"b","i","l","l">>,
          <<"e","x","p","e","n","s","e">>, <<"m","o","n","e","y">>,
          <<"d","o","l","l","a","r">>, <<"s","a","v","e">>,
          <<"s","a","v","i","n","g","s">>,
          <<"e","x","p","e","n","s","i","v","e">>, <<"c","h","e","a","p">>>>,
     control |->
        <<<<"t","u","r","n"," ","o","n">>,
          <<"t","u","r","n"," ","o","f","f">>, <<"s","w","i","t","c","h">>,
          <<"c","o","n","t","r","o","l">>, <<"o","p","e","r","a","t","e">>,
          <<"s","t","a","r","t">>, <<"s","t","o","p">>,
          <<"e","n","a","b","l","e">>, <<"d","i","s","a","b","l","e">>,
          <<"t","o","g","g","l","e">>>>,
     anomaly |->
        <<<<"a","n","o","m","a","l","y">>, <<"u","n","u","s","u","a","l">>,
          <<"a","b","n","o","r","m","a","l">>,
          <<"s","t","r","a","n","g","e">>, <<"w","e","i","r","d">>,
          <<"u","n","e","x","p","e","c","t","e","d">>,
          <<"s","p","i","k","e">>, <<"i","r","r","e","g","u","l","a","r">>,
          <<"d","e","t","e","c","t">>>>,
     comparison |->
        <<<<"c","o","m","p","a","r","e">>, <<"v","e","r","s","u","s">>,
          <<"v","s">>, <<"d","i","f","f","e","r","e","n","c","e">>,
          <<"w","h","i","c","h">>, <<"b","e","t","t","e","r">>,
          <<"w","o","r","s","e">>, <<"m","o","r","e">>, <<"l","e","s","s">>,
          <<"b","e","t","w","e","e","n">>>>,
     trend |->
        <<<<"t","r","e","n","d">>, <<"p","a","t","t","e","r","n">>,
          <<"o","v","e","r"," ","t","i","m","e">>,
          <<"i","n","c","r","e","a","s","i","n","g">>,
          <<"d","e","c","r","e","a","s","i","n","g">>,
          <<"g","r","a","p","h">>, <<"c","h","a","r","t">>,
          <<"h","i","s","t","o","r","y">>, <<"c","h","a","n","g","e">>>>,
     schedule |->
        <<<<"s","c","h","e","d","u","l","e">>, <<"t","i","m","e","r">>,
          <<"a","u","t","o","m","a","t","e">>,
          <<"a","u","t","o","m","a","t","i","o","n">>, <<"w","h","e","n">>,
          <<"t","i","m","e">>, <<"p","r","o","g","r","a","m">>,
          <<"r","o","u","t","i","n","e">>,
          <<"s","e","t"," ","t","i","m","e">>>>,
     maintenance |->
        <<<<"m","a","i","n","t","e","n","a","n","c","e">>,
          <<"r","e","p","a","i","r">>, <<"f","i","x">>,
          <<"s","e","r","v","i","c","e">>, <<"r","e","p","l","a","c","e">>,
          <<"l","i","f","e","s","p","a","n">>, <<"w","e","a","r">>,
          <<"c","h","e","c","k"," ","u","p">>,
          <<"i","n","s","p","e","c","t","i","o","n">>>>,
     safety |->
        <<<<"s","a","f","e">>, <<"s","a","f","e","t","y">>,
          <<"d","a","n","g","e","r","o","u","s">>,
          <<"h","a","z","a","r","d">>, <<"r","i","s","k">>,
          <<"f","i","r","e">>, <<"s","h","o","c","k">>,
          <<"o","v","e","r","l","o","a","d">>,
          <<"p","r","o","t","e","c","t","i","o","n">>>>,
     optimization |->
        <<<<"o","p","t","i","m","i","z","e">>,
          <<"e","f","f","i","c","i","e","n","t">>,
          <<"e","f","f","i","c","i","e","n","c","y">>,
          <<"i","m","p","r","o","v","e">>, <<"r","e","d","u","c","e">>,
          <<"l","o","w","e","r">>, <<"m","i","n","i","m","i","z","e">>,
          <<"b","e","s","t">>, <<"t","i","p","s">>>>,
     history |->
        <<<<"y","e","s","t","e","r","d","a","y">>,
          <<"l","a","s","t"," ","w","e","e","k">>,
          <<"l","a","s","t"," ","m","o","n","t","h">>,
          <<"p","r","e","v","i","o","u","s">>,
          <<"h","i","s","t","o","r","i","c","a","l">>, <<"p","a","s","t">>,
          <<"b","e","f","o","r","e">>, <<"a","g","o">>>>,
     forecast |->
        <<<<"p","r","e","d","i","c","t">>,
          <<"f","o","r","e","c","a","s","t">>, <<"f","u","t","u","r","e">>,
          <<"e","x","p","e","c","t">>, <<"w","i","l","l">>,
          <<"e","s","t","i","m","a","t","e">>,
          <<"p","r","o","j","e","c","t">>,
          <<"t","o","m","o","r","r","o","w">>, <<"n","e","x","t">>>>]

\* entity_patterns: the alternatives of each pattern between its two \b, in
\* the order written
entity_patterns ==
    [load_name |->
        <<<<"f","a","n">>, <<"b","u","l","b">>, <<"h","e","a","t","e","r">>,
          <<"a","c">>, <<"d","c">>, <<"m","o","t","o","r">>,
          <<"p","u","m","p">>, <<"l","i","g","h","t">>, <<"l","a","m","p">>>>,
     time_period |->
        <<<<"t","o","d","a","y">>, <<"y","e","s","t","e","r","d","a","y">>,
          <<"t","h","i","s"," ","w","e","e","k">>,
          <<"l","a","s","t"," ","w","e","e","k">>,
          <<"t","h","i","s"," ","m","o","n","t","h">>, <<"h","o","u","r">>,
          <<"d","a","y">>, <<"w","e","e","k">>, <<"m","o","n","t","h">>>>,
     action |->
        <<<<"t","u","r","n"," ","o","n">>,
          <<"t","u","r","n"," ","o","f","f">>,
          <<"s","w","i","t","c","h"," ","o","n">>,
          <<"s","w","i","t","c","h"," ","o","f","f">>,
          <<"s","t","a","r","t">>, <<"s","t","o","p">>,
          <<"e","n","a","b","l","e">>, <<"d","i","s","a","b","l","e">>>>]

\* the units of the second group of the number pattern (watts? and
\* kilowatts? written out)
number_units ==
    {<<"w">>, <<"k","w">>, <<"k","w","h">>, <<"w","a","t","t">>,
     <<"w","a","t","t","s">>, <<"k","i","l","o","w","a","t","t">>,
     <<"k","i","l","o","w","a","t","t","s">>}

\* the entity types in the order of entity_patterns
EntityTypes == <<"load_name", "time_period", "number", "action">>

\* ---------------------------------------------------------- the messages
\* words in a message explored
MaxWords == 2

Vocabulary ==
    {<<"t","u","r","n">>, <<"o","n">>,
     <<"c","o","n","s","u","m","p","t","i","o","n">>, <<"C","o","s","t">>,
     <<"f","a","n">>, <<"5">>, <<"k","w","h">>, <<"l","a","s","t">>,
     <<"w","e","e","k">>}

Space == " "

\* " ".join(words)
RECURSIVE join(_)
join(ws) ==
    IF Len(ws) = 0 THEN <<>>
    ELSE IF Len(ws) = 1 THEN ws[1]
    ELSE ws[1] \o <<Space>> \o join(Tail(ws))

Messages == {join(ws) : ws \in SeqsUpTo(Vocabulary, MaxWords)}

\* ----------------------------------------------------------- detect_intent
\* the characters i .. i + Len(p) - 1 of t are p
At(p, t, i) ==
    /\ i >= 1
    /\ i + Len(p) - 1 <= Len(t)
    /\ SubSeq(t, i, i + Len(p) - 1) = p

\* \b after position i of t, for a pattern that ends in a word character
BoundaryAfter(t, i) == i = Len(t) \/ t[i + 1] \notin WordChars
\* \b before position i of t, for a pattern that starts with one
BoundaryBefore(t, i) == i = 1 \/ t[i - 1] \notin WordChars

\* `keyword in message_lower`
Contains(kw, t) == \E i \in 1 .. Len(t) : At(kw, t, i)

\* \bkeyword\b matches at position i of t
WordAt(kw, t, i) ==
    /\ At(kw, t, i)
    /\ BoundaryBefore(t, i)
    /\ BoundaryAfter(t, i + Len(kw) - 1)

\* re.search(rf'\b{re.escape(keyword)}\b', message_lower)
WholeWord(kw, t) == \E i \in 1 .. Len(t) : WordAt(kw, t, i)

\* lines 122-124: the score of one intent
score_flat(intent, t) ==
    LET kws == intent_keywords[intent]
    IN  Cardinality({n \in DOMAIN kws : Contains(kws[n], t)})
          + Cardinality({n \in DOMAIN kws : WholeWord(kws[n], t)})

score(intent, t) ==
    LET kws == intent_keywords[intent]
    IN  Cardinality({n \in DOMAIN kws : Contains(kws[n], t)})
          + 2 * Cardinality({n \in DOMAIN kws : WholeWord(kws[n], t)})

\* intent_scores, by the position of the intent in the dict
intent_scores(t) ==
    [n \in DOMAIN KeywordIntents |-> score(KeywordIntents[n], t)]

\* max(intent_scores, key=intent_scores.get) over the first n keys: a
\* later key replaces the best one only with a greater score
RECURSIVE max_key_last(_, _)
max_key_last(scores, n) ==
    IF n = 1 THEN 1
    ELSE LET b == max_key_last(scores, n - 1)
         IN  IF scores[n] >= scores[b] THEN n ELSE b

RECURSIVE max_key(_, _)
max_key(scores, n) ==
    IF n = 1 THEN 1
    ELSE LET b == max_key(scores, n - 1)
         IN  IF scores[n] > scores[b] THEN n ELSE b

detect_intent(message) ==
    LET scores == intent_scores(lower(message))
        b == max_key(scores, Len(KeywordIntents))
    IN  IF scores[b] > 0 THEN KeywordIntents[b] ELSE "general"

\* -------------------------------------------------------- extract_entities
\* re.findall of \b(a1|a2|...)\b from position i on: the first alternative
\* that matches at a position is taken, the scan goes on behind the match
RECURSIVE findall(_, _, _)
findall(alts, t, i) ==
    IF i > Len(t) THEN <<>>
    ELSE LET hits == {n \in DOMAIN alts : WordAt(alts[n], t, i)}
         IN  IF hits = {} THEN findall(alts, t, i + 1)
             ELSE LET n == CHOOSE h \in hits : \A g \in hits : h <= g
                  IN  <<alts[n]>> \o findall(alts, t, i + Len(alts[n]))

\* the end of the run of characters of S that starts at position i of t
\* (i - 1 when there is none)
RECURSIVE run_end(_, _, _)
run_end(S, t, i) ==
    IF i <= Len(t) /\ t[i] \in S THEN run_end(S, t, i + 1) ELSE i - 1

\* a match of \b(\d+(?:\.\d+)?)\s*(w|kw|kwh|watts?|kilowatts?)?\b at
\* position i of a text without a decimal point: its two groups and the
\* position behind it; no match: num is empty
number_at(t, i) ==
    LET j == run_end(Digits, t, i)
        k == run_end({Space}, t, j + 1) + 1
        units == {u \in number_units :
                     At(u, t, k) /\ BoundaryAfter(t, k + Len(u) - 1)}
    IN  IF j < i \/ ~BoundaryBefore(t, i)
        THEN [num |-> <<>>, unit |-> <<>>, next |-> i + 1]
        ELSE IF units # {}
        THEN LET u == CHOOSE u \in units : TRUE
             IN  [num |-> SubSeq(t, i, j), unit |-> u, next |-> k + Len(u)]
        ELSE IF k > j + 1 /\ k <= Len(t) /\ t[k] \in WordChars
        THEN [num |-> SubSeq(t, i, j), unit |-> <<>>, next |-> k]
        ELSE IF BoundaryAfter(t, j)
        THEN [num |-> SubSeq(t, i, j), unit |-> <<>>, next |-> j + 1]
        ELSE [num |-> <<>>, unit |-> <<>>, next |-> i + 1]

\* re.findall of the number pattern: a tuple of the two groups per match
RECURSIVE findall_number(_, _)
findall_number(t, i) ==
    IF i > Len(t) THEN <<>>
    ELSE LET m == number_at(t, i)
         IN  IF m.num = <<>> THEN findall_number(t, m.next)
             ELSE <<<<m.num, m.unit>>>> \o findall_number(t, m.next)

\* lines 146-151 for tuples: flattened.extend([m for m in match if m])
RECURSIVE flatten_keep(_)
flatten_keep(matches) ==
    IF matches = <<>> THEN <<>>
    ELSE matches[1] \o flatten_keep(Tail(matches))

RECURSIVE flatten(_)
flatten(matches) ==
    IF matches = <<>> THEN <<>>
    ELSE SelectSeq(matches[1], LAMBDA m : m # <<>>) \o flatten(Tail(matches))

\* re.findall(pattern, message_lower, re.IGNORECASE) of one entity type,
\* flattened: strings as they are, tuples element by element
flattened(entity_type, t) ==
    IF entity_type = "number" THEN flatten(findall_number(t, 1))
    ELSE findall(entity_patterns[entity_type], t, 1)

\* `if matches:`
has_matches(entity_type, t) ==
    IF entity_type = "number" THEN findall_number(t, 1) # <<>>
    ELSE findall(entity_patterns[entity_type], t, 1) # <<>>

extract_entities(message) ==
    LET t == lower(message)
        present == {n \in DOMAIN EntityTypes : has_matches(EntityTypes[n], t)}
    IN  [e \in {EntityTypes[n] : n \in present} |-> flattened(e, t)]

\* ------------------------------------------------------ get_quick_insights
\* alerts in a context explored
MaxAlerts == 4
Severities == {"critical", "warning", "info"}
AlertLists == SeqsUpTo(Severities, MaxAlerts)
Load(is_on, current_power) == [is_on |-> is_on, current_power |-> current_power]
\* no loads; the loads of get_system_context; one load above 500 W; five
\* loads above 500 W and one at exactly 500 W
LoadLists ==
    {<<>>,
     <<Load(TRUE, 45), Load(TRUE, 60), Load(FALSE, 0)>>,
     <<Load(TRUE, 600), Load(FALSE, 900)>>,
     <<Load(TRUE, 501), Load(TRUE, 600), Load(TRUE, 700), Load(TRUE, 800),
       Load(TRUE, 500), Load(TRUE, 900)>>}
\* datetime.now().hour: off-peak, peak, neither
Hours == {3, 12, 20}

RECURSIVE total_power(_)
total_power(loads) ==
    IF loads = <<>> THEN 0
    ELSE loads[1].current_power + total_power(Tail(loads))

count_critical(alerts) ==
    Cardinality({i \in DOMAIN alerts : alerts[i] = "critical"})

\* lines 331-340
health_status_three(alerts) ==
    IF count_critical(alerts) > 0 THEN "critical"
    ELSE IF Len(alerts) >= 3 THEN "warning"
    ELSE "healthy"

health_status(alerts) ==
    IF count_critical(alerts) > 0 THEN "critical"
    ELSE IF Len(alerts) > 3 THEN "warning"
    ELSE "healthy"

\* _generate_quick_tips: the tips by their kind
RECURSIVE power_tips(_)
power_tips(loads) ==
    IF loads = <<>> THEN <<>>
    ELSE (IF loads[1].is_on /\ loads[1].current_power > 500
          THEN <<"high_power">> ELSE <<>>) \o power_tips(Tail(loads))

generate_quick_tips_all(loads, alerts, hour) ==
    LET tips == power_tips(loads)
                  \o (IF alerts # <<>> THEN <<"alerts">> ELSE <<>>)
                  \o (IF 9 <= hour /\ hour <= 17 THEN <<"peak">>
                      ELSE IF hour >= 22 \/ hour < 6 THEN <<"off_peak">>
                      ELSE <<>>)
    IN  IF tips = <<>> THEN <<"normal">> ELSE tips

generate_quick_tips(loads, alerts, hour) ==
    LET tips == power_tips(loads)
                  \o (IF alerts # <<>> THEN <<"alerts">> ELSE <<>>)
                  \o (IF 9 <= hour /\ hour <= 17 THEN <<"peak">>
                      ELSE IF hour >= 22 \/ hour < 6 THEN <<"off_peak">>
                      ELSE <<>>)
        all == IF tips = <<>> THEN <<"normal">> ELSE tips
    IN  SubSeq(all, 1, IF Len(all) < 5 THEN Len(all) ELSE 5)

get_quick_insights(loads, alerts, hour) ==
    [health |-> [status |-> health_status(alerts)],
     metrics |->
        [total_power_w |-> total_power(loads),
         active_loads |-> Cardinality({i \in DOMAIN loads : loads[i].is_on}),
         total_loads |-> Len(loads),
         active_alerts |-> Len(alerts),
         critical_alerts |-> count_critical(alerts)],
     quick_tips |-> generate_quick_tips(loads, alerts, hour)]

\* -------------------------------------------------------- get_system_health
\* mutant: three alerts already make a warning
get_system_health_three(loads, alerts) ==
    LET critical_alerts == count_critical(alerts)
        status == IF critical_alerts > 0 THEN "critical"
                  ELSE IF Len(alerts) >= 3 THEN "warning"
                  ELSE "healthy"
    IN  [status |-> status,
         health_score |-> IF status = "critical" THEN 40
                          ELSE IF status = "warning" THEN 70 ELSE 95,
         metrics |->
            [total_power_w |-> total_power(loads),
             active_loads |-> Cardinality({i \in DOMAIN loads : loads[i].is_on}),
             total_loads |-> Len(loads),
             active_alerts |-> Len(alerts),
             critical_alerts |-> critical_alerts]]

\* GET /analysis/system-health, lines 206-235, on the loads and alerts of
\* its context
get_system_health(loads, alerts) ==
    LET critical_alerts == count_critical(alerts)
        status == IF critical_alerts > 0 THEN "critical"
                  ELSE IF Len(alerts) > 3 THEN "warning"
                  ELSE "healthy"
    IN  [status |-> status,
         health_score |-> IF status = "critical" THEN 40
                          ELSE IF status = "warning" THEN 70 ELSE 95,
         metrics |->
            [total_power_w |-> total_power(loads),
             active_loads |-> Cardinality({i \in DOMAIN loads : loads[i].is_on}),
             total_loads |-> Len(loads),
             active_alerts |-> Len(alerts),
             critical_alerts |-> critical_alerts]]

\* ------------------------------------------------------- the SystemContext
\* The objects the caller of the agent holds: the context dict, whose values
\* are references to the list objects, and those lists.  A request with
\* include_context = False passes an empty dict.
EmptyDict == [k \in {} |-> ""]
EmptyContext == [o \in {"system_context"} |-> EmptyDict]
\* a context built at time t
ContextAt(loads, alerts, t) ==
    [system_context |-> [loads |-> "loads", recentAlerts |-> "recentAlerts",
                         hourlyTrends |-> "hourlyTrends",
                         timestamp |-> "timestamp"],
     loads |-> loads, recentAlerts |-> alerts, hourlyTrends |-> <<>>,
     timestamp |-> <<t>>]
Context(loads, alerts) == ContextAt(loads, alerts, now)
\* the context of get_system_context in chat.py (one warning), that of
\* analysis.py (no alert), and contexts with other loads and alerts
Contexts ==
    {EmptyContext} \cup
    {Context(loads, alerts) :
        loads \in LoadLists,
        alerts \in {<<>>, <<"warning">>, <<"critical", "info">>}}

\* context.get(key, default), followed through the reference
context_get(heap, c, key, default) ==
    IF key \in DOMAIN heap[c] THEN heap[heap[c][key]] ELSE default

\* get_intent_guidance: the entry of guidance_map for the intent (the
\* entry of GENERAL for any other key), and the number its f-string
\* interpolates: len(alerts) in the entry of ALERTS, nothing elsewhere
get_intent_guidance(intent, heap, c) ==
    LET alerts == context_get(heap, c, "recentAlerts", <<>>)
        known == \E n \in DOMAIN QuestionIntent : QuestionIntent[n] = intent
    IN  [entry |-> IF known THEN intent ELSE "general",
         count |-> IF intent = "alerts" THEN Len(alerts) ELSE None]

\* {**d, key: value}: a new dict
dict_with(d, key, value) ==
    [k \in DOMAIN d \cup {key} |-> IF k = key THEN value ELSE d[k]]

\* mutant: system_context['_analysis'] = {...}, the caller's dict is
\* enriched and passed on
enrich_in_place(heap, analysis) ==
    [o \in DOMAIN heap \cup {"enriched_context"} |->
        IF o \in {"enriched_context", "system_context"}
        THEN dict_with(heap.system_context, "_analysis", analysis)
        ELSE heap[o]]

\* process_query, lines 262-271: enriched_context is a new dict with the
\* items of system_context (the same list objects) and '_analysis'
enrich(heap, analysis) ==
    [o \in DOMAIN heap \cup {"enriched_context"} |->
        IF o = "enriched_context"
        THEN dict_with(heap.system_context, "_analysis", analysis)
        ELSE heap[o]]

\* process_query up to the call of llm_service.chat: the analysis of the
\* message, and the objects afterwards (is_follow_up, a boolean computed
\* from the message alone, is not part of the value kept here); chat, the
\* fallback responder and _enhance_response only read from the dicts
process_query(message, heap) ==
    LET intent == detect_intent(message)
        entities == extract_entities(message)
        guidance == get_intent_guidance(intent, heap, "system_context")
        analysis == [intent |-> intent, entities |-> entities,
                     guidance |-> guidance]
    IN  [intent |-> intent, entities |-> entities, guidance |-> guidance,
         heap |-> enrich(heap, analysis)]

\* ------------------------------------------ _generate_fallback_response
\* the words of the four branches, in the order the code tests them
StatusWords == {<<"s","t","a","t","u","s">>, <<"s","t","a","t","e">>,
                <<"h","o","w">>, <<"w","h","a","t">>}
AlertWords == {<<"a","l","e","r","t">>, <<"w","a","r","n","i","n","g">>,
               <<"p","r","o","b","l","e","m">>, <<"i","s","s","u","e">>}
EnergyWords == {<<"e","n","e","r","g","y">>, <<"p","o","w","e","r">>,
                <<"c","o","n","s","u","m","p","t","i","o","n">>,
                <<"c","o","s","t">>}

\* any(w in message_lower for w in words)
any_in(words, message_lower) == \E w \in words : Contains(w, message_lower)

fallback_branch_alerts_first(message_lower) ==
    IF any_in(AlertWords, message_lower) THEN "alerts"
    ELSE IF any_in(StatusWords, message_lower) THEN "status"
    ELSE IF any_in(EnergyWords, message_lower) THEN "energy"
    ELSE "default"

\* lines 460, 482, 507, 524: the if / elif / elif / else chain
fallback_branch(message_lower) ==
    IF any_in(StatusWords, message_lower) THEN "status"
    ELSE IF any_in(AlertWords, message_lower) THEN "alerts"
    ELSE IF any_in(EnergyWords, message_lower) THEN "energy"
    ELSE "default"

\* str.upper() of a severity
upper == [critical |-> "CRITICAL", warning |-> "WARNING", info |-> "INFO"]

\* The text returned, by the template chosen and the values its f-string
\* interpolates; a field a template does not print is None.  A load line is
\* the load's ON / OFF and its power, in the order of the loads.
_generate_fallback_response(message, heap, c) ==
    LET message_lower == lower(message)
        loads == context_get(heap, c, "loads", <<>>)
        alerts == context_get(heap, c, "recentAlerts", <<>>)
        branch == fallback_branch(message_lower)
        active == Cardinality({i \in DOMAIN loads : loads[i].is_on})
    IN  [template |-> IF branch = "alerts" /\ alerts = <<>>
                      THEN "no_alerts" ELSE branch,
         load_lines |->
            IF branch = "status"
            THEN [i \in DOMAIN loads |->
                    <<IF loads[i].is_on THEN "ON" ELSE "OFF",
                      loads[i].current_power>>]
            ELSE IF branch = "energy"
            THEN [i \in DOMAIN loads |-> <<loads[i].current_power>>]
            ELSE <<>>,
         alert_lines |->
            IF branch = "alerts"
            THEN [i \in 1 .. (IF Len(alerts) < 5 THEN Len(alerts) ELSE 5) |->
                    upper[alerts[i]]]
            ELSE <<>>,
         alert_count |-> IF branch \in {"status", "default"}
                         THEN Len(alerts) ELSE None,
         normal |-> IF branch = "status" THEN alerts = <<>> ELSE FALSE,
         total_power |-> IF branch \in {"energy", "default"}
                         THEN total_power(loads) ELSE None,
         active_loads |-> IF branch = "default" THEN active ELSE None,
         total_loads |-> IF branch = "default" THEN Len(loads) ELSE None]

\* the messages the fallback responder is explored on: words of the three
\* branches, a word that contains a status word (show) and a word of none
FallbackVocabulary ==
    {<<"s","t","a","t","u","s">>, <<"s","h","o","w">>,
     <<"a","l","e","r","t">>, <<"C","o","s","t">>, <<"p","o","w","e","r">>,
     <<"f","a","n">>}
FallbackMessages == {join(ws) : ws \in SeqsUpTo(FallbackVocabulary, MaxWords)}
\* the contexts of the agent, and one with more alerts than the template lists
FallbackContexts ==
    Contexts \cup
    {Context(<<>>, <<"info", "warning", "info", "info", "warning", "critical">>)}

\* ------------------------------------------------------ _enhance_response
\* str(n) of a natural number
DecimalDigits == <<"0", "1", "2", "3", "4", "5", "6", "7", "8", "9">>

RECURSIVE str(_)
str(n) ==
    IF n < 10 THEN <<DecimalDigits[n + 1]>>
    ELSE str(n \div 10) \o <<DecimalDigits[(n % 10) + 1]>>

\* the characters of the provider texts explored: a reply that names no
\* alert and no number, and the empty string
ReplyChars == <<"r", "e", "p", "l", "y">>

\* What GeminiService.chat returned: the text of a provider, or a template
\* of the fallback responder with the values it prints.
ProviderText(text) ==
    [kind |-> "provider", chars |-> IF text = Reply THEN ReplyChars ELSE <<>>]
TemplateText(t) == [kind |-> "template", t |-> t]

\* The numbers a template prints.  Each stands between characters that are
\* not digits: "(45W)", ": 105W", "0 / 0", " 1 active alert(s)", and the
\* "1.", "2.", "3." of the energy tips.  The status template prints
\* len(alerts) only when there are alerts.  Load names and alert messages
\* are not part of a context here; those of get_system_context hold no digit.
template_numbers(t) ==
    {t.load_lines[i][Len(t.load_lines[i])] : i \in DOMAIN t.load_lines}
    \cup {n \in {t.total_power, t.active_loads, t.total_loads} : n # None}
    \cup (IF t.template = "default" \/ (t.template = "status" /\ t.alert_count > 0)
          THEN {t.alert_count} ELSE {})
    \cup (IF t.template = "energy" THEN {1, 2, 3} ELSE {})

\* `'alert' not in response.lower()`, line 305: every template but the
\* energy overview has the word in its fixed text
mentions_alert(returned) ==
    IF returned.kind = "template" THEN returned.t.template # "energy"
    ELSE Contains(<<"a", "l", "e", "r", "t">>, lower(returned.chars))

\* `str(total_power) not in response`, line 312: a run of digits is found
\* inside one number of the text
mentions_number(returned, n) ==
    IF returned.kind = "template"
    THEN \E m \in template_numbers(returned.t) : Contains(str(n), str(m))
    ELSE Contains(str(n), returned.chars)

\* _enhance_response, lines 292-316: what is appended to the text chat
\* returned
_enhance_response(returned, intent, heap, c) ==
    LET alerts == context_get(heap, c, "recentAlerts", <<>>)
        loads == context_get(heap, c, "loads", <<>>)
    IN  IF intent = "alerts" /\ alerts # <<>> /\ ~mentions_alert(returned)
        THEN Footer("alerts", Len(alerts))
        ELSE IF intent = "energy" /\ ~mentions_number(returned, total_power(loads))
        THEN Footer("power", total_power(loads))
        ELSE NoFooter

\* ChatRequest: message and include_context.  The messages sent to the
\* chat endpoint: one of no intent, one of intent energy, one of intent
\* alerts, and one of intent energy that the fallback responder answers
\* with its status template
ChatMessages ==
    {<<"f","a","n">>, <<"p","o","w","e","r">>, <<"a","l","e","r","t">>,
     join(<<<<"w","h","a","t">>, <<"p","o","w","e","r">>>>)}
ChatRequests == [message : ChatMessages, include_context : BOOLEAN]
\* the request whose response gets no appendix whatever chat returns
PlainRequests == {[message |-> <<"f","a","n">>, include_context |-> TRUE]}

\* chat.py get_system_context (lines 42-95) called at time t
get_system_context(t) ==
    ContextAt(<<Load(TRUE, 45), Load(TRUE, 60), Load(FALSE, 0)>>, <<"warning">>, t)

\* chat.py lines 127-129: the context of the request, {} without
\* include_context
system_context_of(q, t) ==
    IF q.include_context THEN get_system_context(t) ELSE EmptyContext

\* process_query, lines 254-281, for request q at time t, around the call
\* of chat, which returned `text` from provider `by` or returned the
\* template: what _enhance_response appends
appendix_of(q, by, text, t) ==
    LET heap == system_context_of(q, t)
        analysed == process_query(q.message, heap)
        returned == IF by = "template"
                    THEN TemplateText(_generate_fallback_response(
                            q.message, analysed.heap, "enriched_context"))
                    ELSE ProviderText(text)
    IN  _enhance_response(returned, analysed.intent, heap, "system_context")

\* appendix_of for every request and every result of chat explored.  No
\* step of it reads the timestamp of the context, so it is tabulated once
\* (@@ makes the table a finished value, not a rule applied at every use).
Appendix ==
    [k \in ChatRequests \X {"gemini", "cerebras", "template"} \X {Reply, Blank} |->
        appendix_of(k[1], k[2], k[3], 0)] @@ <<>>

\* the response text of request q when chat returned c
response_of(q, c) == Text(c.text, Appendix[<<q, c.by, c.text>>])

\* ------------------------------------------------- the prompt of chat
\* `chat_history[-6:]`
PROMPT_TURNS == 6
\* mutant: the oldest six turns are kept
recent_first(chat_history) ==
    IF Len(chat_history) > PROMPT_TURNS
    THEN SubSeq(chat_history, 1, PROMPT_TURNS) ELSE chat_history

\* `chat_history[-6:] if len(chat_history) > 6 else chat_history`
recent(chat_history) ==
    IF Len(chat_history) > PROMPT_TURNS
    THEN LastN(chat_history, PROMPT_TURNS) ELSE chat_history

\* GeminiService.chat, lines 122-128: one "<label>: <content>" paragraph per
\* recent turn
conversation_context(chat_history) ==
    [i \in 1 .. Len(recent(chat_history)) |->
        [label |-> IF recent(chat_history)[i].role = "user"
                   THEN "User" ELSE "Assistant",
         content |-> recent(chat_history)[i].content]]

\* the parts of the prompt that depend on the history and the message: the
\* history section is there when conversation_context is not empty
chat_prompt(message, chat_history) ==
    [history_section |-> conversation_context(chat_history) # <<>>,
     conversation_context |-> conversation_context(chat_history),
     user_question |-> message]

\* the call of GeminiService.chat that composed a prompt: the session of
\* the handler that made it ("" when chat is called directly), the message,
\* the history handed over and the prompt composed from them
composed(session, message, chat_history) ==
    [op |-> "prompt", session |-> session, message |-> message,
     chat_history |-> chat_history,
     prompt |-> chat_prompt(message, chat_history)]

\* --------------------------------------------------------- the endpoints
\* A process that has been serving u1 for a while: 99 chat requests
\* counted in the current window, and a session one exchange below the cap.
WarmLimiter ==
    /\ limits = [u \in Users |-> [a \in Actions |->
                    IF u = "u1" /\ a = "chat"
                    THEN [present |-> TRUE, count |-> CHAT_DAILY_LIMIT - 1,
                          reset_at |-> Day]
                    ELSE NoEntry]]
    /\ now = 0
    /\ rl = NoCall
    /\ incs = [u \in Users |-> [a \in Actions |->
                    IF u = "u1" /\ a = "chat" THEN CHAT_DAILY_LIMIT - 1 ELSE 0]]
    /\ lock = Free

WarmApp ==
    /\ chat_sessions = [s \in {"s1"} |-> Exchanges(1, PriorExchanges)]
    /\ appended = [s \in AllSessions |->
                    IF s = "s1" THEN Exchanges(1, PriorExchanges) ELSE <<>>]
    /\ cleared = {}
    /\ fn = NoFn

\* The process after `import services.main`: not started, fresh, or having
\* served u1 for a while.
Init ==
    /\ \E fields \in SettingsClasses, env \in Environments, sdk_ok \in BOOLEAN :
          llm = import_main(fields, env, sdk_ok)
    /\ (ColdLimiter /\ ColdApp) \/ (Serving /\ WarmLimiter /\ WarmApp)
    /\ inflight = {}
    /\ resp = NoResp
    /\ sent = 0

\* the text of the next chat message: every request carries a new one
next_msg == PriorExchanges + sent + 1

\* chat, lines 143-173, and process_query, lines 283-290: chat has
\* returned c.text; store the exchange, count the request, answer
Complete(r, c, q) ==
    /\ lock = Free
    /\ lock' = async_with_lock(lock)
    /\ chat_sessions' = append_exchange(chat_sessions, r.session, r.msg)
    /\ appended' = [appended EXCEPT ![r.session] =
                       @ \o <<Turn("user", r.msg), Turn("assistant", r.msg)>>]
    /\ cleared' = cleared \ {r.session}
    /\ limits' = increment_count(limits, r.user, "chat").limits
    /\ rl' = [IncrementCall(limits, now, incs, r.user, "chat")
                 EXCEPT !.rate_check = r.rate_check]
    /\ incs' = [incs EXCEPT ![r.user]["chat"] = @ + 1]
    /\ resp' = [NoResp EXCEPT !.op = "chat", !.status = 200, !.user = r.user,
                              !.session = r.session, !.msg = r.msg,
                              !.by = c.by, !.text = response_of(q, c),
                              !.attempts = c.attempts,
                              !.ai_enabled = llm.initialized]
    /\ inflight' = inflight \ {r}
    /\ UNCHANGED <<now, llm, sent>>
    /\ fn' = NoFn

\* chat, lines 177-179: an exception has come out of process_query: 500,
\* nothing stored, nothing counted
Failed(r, c) ==
    /\ resp' = [NoResp EXCEPT !.op = "chat", !.status = 500, !.user = r.user,
                              !.session = r.session, !.msg = r.msg,
                              !.attempts = c.attempts]
    /\ rl' = NoCall
    /\ inflight' = inflight \ {r}
    /\ UNCHANGED <<limits, now, incs, lock, llm, chat_sessions, sent, appended,
                   cleared>>
    /\ fn' = NoFn

\* the handler is suspended in the next provider call
Suspended(r, c) ==
    /\ inflight' = (inflight \ {r}) \cup
                      {[r EXCEPT !.call = c.next, !.attempts = c.attempts]}
    /\ rl' = NoCall
    /\ resp' = NoResp
    /\ UNCHANGED <<limits, now, incs, lock, llm, chat_sessions, sent, appended,
                   cleared>>
    /\ fn' = NoFn

\* what the handler does with the outcome c of a step of GeminiService.chat
Continue(r, c, q) ==
    IF c.next = "return" THEN Complete(r, c, q)
    ELSE IF c.next = "raise" THEN Failed(r, c)
    ELSE Suspended(r, c)

\* chat, lines 109-124: the check refuses the request: 429 with the
\* limit, remaining and reset_at of the dict the check returned
ChatRejected(u, sid) ==
    /\ Serving
    /\ lock = Free
    /\ lock' = async_with_lock(lock)
    /\ ~admitted(check_rate_limit(limits, now, u, "chat", CHAT_DAILY_LIMIT).result)
    /\ limits' = check_rate_limit(limits, now, u, "chat", CHAT_DAILY_LIMIT).limits
    /\ rl' = CheckCall(limits, now, incs, u, "chat", CHAT_DAILY_LIMIT)
    /\ incs' = incs_after_check(incs, limits, now, u, "chat")
    /\ resp' = [NoResp EXCEPT !.op = "chat", !.status = 429, !.user = u,
                   !.session = session_of(sid, u),
                   !.limit = rl'.limit, !.remaining = rl'.remaining,
                   !.reset_at = rl'.reset_at]
    /\ UNCHANGED <<now, llm, chat_sessions, inflight, sent, appended, cleared>>
    /\ fn' = NoFn

\* chat, lines 109-140, and GeminiService.chat up to its first provider
\* call: the check admits the request, the handler reads the history of
\* its session (line 133), chat composes the prompt from it (lines 122-161)
\* and the handler is suspended in the primary call, or (no model: the
\* attribute error is caught) in the secondary call, which is sent the
\* same prompt
ChatCheckAdmits(u, sid) ==
    /\ Serving
    /\ lock = Free
    /\ lock' = async_with_lock(lock)
    /\ admitted(check_rate_limit(limits, now, u, "chat", CHAT_DAILY_LIMIT).result)
    /\ chat_start(llm).next # "return"
    /\ limits' = check_rate_limit(limits, now, u, "chat", CHAT_DAILY_LIMIT).limits
    /\ rl' = CheckCall(limits, now, incs, u, "chat", CHAT_DAILY_LIMIT)
    /\ incs' = incs_after_check(incs, limits, now, u, "chat")
    /\ inflight' = inflight \cup
          {[user |-> u, session |-> session_of(sid, u), msg |-> next_msg,
            call |-> chat_start(llm).next,
            attempts |-> chat_start(llm).attempts,
            rate_check |-> RateCheck(u, "chat",
                check_rate_limit(limits, now, u, "chat", CHAT_DAILY_LIMIT).result)]}
    /\ sent' = sent + 1
    /\ resp' = NoResp
    /\ fn' = composed(session_of(sid, u), next_msg,
                      session_get(chat_sessions, session_of(sid, u)))
    /\ UNCHANGED <<now, llm, chat_sessions, appended, cleared>>

\* a chat request of the run: at most MaxHandlers handlers are in flight
\* together and MaxMsgs requests are admitted in all
ChatAdmitted(u, sid) ==
    /\ Cardinality(inflight) < MaxHandlers
    /\ sent < MaxMsgs
    /\ ChatCheckAdmits(u, sid)

\* chat with a gateway that makes no provider call (not initialized): the
\* handler runs from the check to the response without being suspended.
\* The increment sees the table the check left.
ChatTemplate(u, sid, q) ==
    /\ Serving
    /\ sent < MaxMsgs
    /\ lock = Free
    /\ async_with_lock(lock) = Free
    /\ lock' = async_with_lock(async_with_lock(lock))
    /\ admitted(check_rate_limit(limits, now, u, "chat", CHAT_DAILY_LIMIT).result)
    /\ chat_start(llm).next = "return"
    /\ LET L == check_rate_limit(limits, now, u, "chat", CHAT_DAILY_LIMIT).limits
           n == incs_after_check(incs, limits, now, u, "chat")
           s == session_of(sid, u)
           c == chat_start(llm)
       IN  /\ chat_sessions' = append_exchange(chat_sessions, s, next_msg)
           /\ appended' = [appended EXCEPT ![s] =
                              @ \o <<Turn("user", next_msg), Turn("assistant", next_msg)>>]
           /\ cleared' = cleared \ {s}
           /\ limits' = increment_count(L, u, "chat").limits
           /\ rl' = [IncrementCall(L, now, n, u, "chat") EXCEPT
                        !.rate_check = RateCheck(u, "chat",
                            check_rate_limit(limits, now, u, "chat",
                                             CHAT_DAILY_LIMIT).result)]
           /\ incs' = [n EXCEPT ![u]["chat"] = @ + 1]
           /\ resp' = [NoResp EXCEPT !.op = "chat", !.status = 200, !.user = u,
                                     !.session = s, !.msg = next_msg,
                                     !.by = c.by, !.text = response_of(q, c),
                                     !.attempts = c.attempts,
                                     !.ai_enabled = llm.initialized]
    /\ sent' = sent + 1
    /\ UNCHANGED <<now, llm, inflight>>
    /\ fn' = NoFn

\* GeminiService.chat, lines 163-186: the primary call of handler r returns
GeminiReturns(r, outcome, q) ==
    /\ r.call = "gemini"
    /\ Continue(r, after_gemini(llm, outcome), q)

\* GeminiService.chat, lines 178-186: the secondary call of handler r returns
CerebrasReturns(r, outcome, q) ==
    /\ r.call = "cerebras"
    /\ Continue(r, after_cerebras(r.attempts, outcome), q)

\* get_chat_history
GetChatHistory(s) ==
    /\ Serving
    /\ resp' = [NoResp EXCEPT !.op = "history", !.status = 200, !.session = s,
                   !.messages = chat_messages(chat_sessions, s),
                   !.total = Len(chat_messages(chat_sessions, s))]
    /\ rl' = NoCall
    /\ UNCHANGED <<limits, now, incs, lock, llm, chat_sessions, inflight, sent,
                   appended, cleared>>
    /\ fn' = NoFn

\* clear_chat_history
ClearChatHistory(s) ==
    /\ Serving
    /\ chat_sessions' = clear_session(chat_sessions, s)
    /\ appended' = [appended EXCEPT ![s] = <<>>]
    /\ cleared' = cleared \cup {s}
    /\ resp' = [NoResp EXCEPT !.op = "clear", !.status = 200, !.session = s,
                              !.before = chat_sessions]
    /\ rl' = NoCall
    /\ UNCHANGED <<limits, now, incs, lock, llm, inflight, sent>>
    /\ fn' = NoFn

\* get_rate_limit_status: the usage is read first, then the check runs
GetRateLimitStatus(u) ==
    /\ Serving
    /\ lock = Free
    /\ async_with_lock(lock) = Free
    /\ lock' = async_with_lock(async_with_lock(lock))
    /\ limits' = check_rate_limit(limits, now, u, "chat", CHAT_DAILY_LIMIT).limits
    /\ rl' = CheckCall(limits, now, incs, u, "chat", CHAT_DAILY_LIMIT)
    /\ incs' = incs_after_check(incs, limits, now, u, "chat")
    /\ resp' = [NoResp EXCEPT !.op = "rate-limit", !.status = 200, !.user = u,
                   !.limit = rl'.limit, !.remaining = rl'.remaining,
                   !.reset_at = rl'.reset_at,
                   !.usage = get_usage_stats(limits, now, u)]
    /\ UNCHANGED <<now, llm, chat_sessions, inflight, sent, appended, cleared>>
    /\ fn' = NoFn

Next ==
    \/ Tick(Day)
    \/ \E u \in ChatUsers, sid \in SessionIds : ChatRejected(u, sid)
    \/ \E u \in ChatUsers, sid \in SessionIds : ChatAdmitted(u, sid)
    \/ \E u \in ChatUsers, sid \in SessionIds, q \in PlainRequests :
          ChatTemplate(u, sid, q)
    \/ \E r \in inflight, o \in GeminiOutcomes, q \in PlainRequests :
          GeminiReturns(r, o, q)
    \/ \E r \in inflight, o \in CerebrasOutcomes, q \in PlainRequests :
          CerebrasReturns(r, o, q)
    \/ \E s \in AllSessions : GetChatHistory(s)
    \/ \E s \in AllSessions : ClearChatHistory(s)
    \/ \E u \in ChatUsers : GetRateLimitStatus(u)

Spec == Init /\ [][Next]_vars

\* The same service with every request of ChatRequests sent to the chat
\* endpoint.  The in-flight record of a handler keeps the number of its
\* message; the request it stands for is named again where the handler
\* resumes and reads it, in the step that builds the response.
NextChat ==
    \/ Tick(Day)
    \/ \E u \in ChatUsers, sid \in SessionIds : ChatRejected(u, sid)
    \/ \E u \in ChatUsers, sid \in SessionIds : ChatAdmitted(u, sid)
    \/ \E u \in ChatUsers, sid \in SessionIds, q \in ChatRequests :
          ChatTemplate(u, sid, q)
    \/ \E r \in inflight, o \in GeminiOutcomes, q \in ChatRequests :
          GeminiReturns(r, o, q)
    \/ \E r \in inflight, o \in CerebrasOutcomes, q \in ChatRequests :
          CerebrasReturns(r, o, q)
    \/ \E s \in AllSessions : GetChatHistory(s)
    \/ \E s \in AllSessions : ClearChatHistory(s)
    \/ \E u \in ChatUsers : GetRateLimitStatus(u)

SpecChat == Init /\ [][NextChat]_vars

\* The secondary call is made through httpx.AsyncClient(timeout=60.0): it
\* returns or raises, so a handler waiting for it is resumed.  The primary
\* call, asyncio.to_thread(self.model.generate_content, prompt), is given no
\* timeout and is not wrapped in one: nothing in the service makes it return.
CerebrasCallEnds ==
    \E r \in inflight, o \in CerebrasOutcomes, q \in PlainRequests :
        CerebrasReturns(r, o, q)

SpecLive == Init /\ [][Next]_vars /\ WF_vars(CerebrasCallEnds)

\* ------------------------------------------------ the quota of one key
\* The chat router with more handlers in flight together than in Spec, and
\* one request more than that sent in a run, so that it is the check, not
\* the number of requests, that bounds the count.
QuotaHandlers == 3
QuotaMsgs == QuotaHandlers + 1

\* a chat request of the run is admitted
HandlerAdmitted(u, sid) ==
    /\ Cardinality(inflight) < QuotaHandlers
    /\ sent < QuotaMsgs
    /\ ChatCheckAdmits(u, sid)

\* A process with any gateway, fresh or with 99 chat requests of u1 counted
\* in the current window.
InitQuota ==
    /\ \E fields \in SettingsClasses, env \in Environments :
          llm = import_main(fields, env, TRUE)
    /\ ColdLimiter \/ (Serving /\ WarmLimiter)
    /\ ColdApp
    /\ inflight = {}
    /\ resp = NoResp
    /\ sent = 0

\* the chat router; the requests name no session, so that each is of the
\* default session of its user
NextQuota ==
    \/ Tick(Day)
    \/ \E u \in ChatUsers : ChatRejected(u, "")
    \/ \E u \in ChatUsers : HandlerAdmitted(u, "")
    \/ \E r \in inflight, o \in GeminiOutcomes, q \in PlainRequests :
          GeminiReturns(r, o, q)
    \/ \E r \in inflight, o \in CerebrasOutcomes, q \in PlainRequests :
          CerebrasReturns(r, o, q)
    \/ \E u \in ChatUsers, q \in PlainRequests : ChatTemplate(u, "", q)
    \/ \E s \in AllSessions : GetChatHistory(s)
    \/ \E s \in AllSessions : ClearChatHistory(s)
    \/ \E u \in ChatUsers : GetRateLimitStatus(u)

SpecQuota == InitQuota /\ [][NextQuota]_vars

\* ------------------------------------------------ one operation, any key
\* One operation of the limiter or of the session store, applied to a
\* process in which the other keys hold state: every (user, action) has no
\* entry or one made on day 0 with some requests counted, it is day 0 or
\* day 1, and every session is absent or holds PriorExchanges exchanges.
KeyEntries ==
    {NoEntry,
     [present |-> TRUE, count |-> 1, reset_at |-> Day],
     [present |-> TRUE, count |-> MaxCount - 1, reset_at |-> Day]}

InitKeys ==
    /\ \E fields \in SettingsClasses : llm = import_main(fields, NoKeys, FALSE)
    /\ limits \in [Users -> [Actions -> KeyEntries]]
    /\ now \in {0, Day}
    /\ rl = NoCall
    /\ incs = [u \in Users |-> [a \in Actions |-> Get(limits[u][a].count, 0)]]
    /\ lock = Free
    /\ ~Serving =>
          /\ now = 0
          /\ \A u \in Users, a \in Actions : limits[u][a] = NoEntry
    /\ \E S \in SUBSET AllSessions :
          /\ ~Serving => S = {}
          /\ chat_sessions = [s \in S |-> Exchanges(1, PriorExchanges)]
          /\ appended = [s \in AllSessions |->
                           IF s \in S THEN Exchanges(1, PriorExchanges) ELSE <<>>]
    /\ cleared = {}
    /\ fn = NoFn
    /\ inflight = {}
    /\ resp = NoResp
    /\ sent = 0

\* no operation has been applied yet
Untouched == rl = NoCall /\ resp = NoResp

NextKeys ==
    \/ Untouched /\ \E u \in Users, a \in Actions, limit \in Limits :
                       CheckRateLimit(u, a, limit)
    \/ Untouched /\ \E u \in Users, a \in Actions : IncrementCount(u, a)
    \/ Untouched /\ \E u \in Users, a \in Actions \cup {NoAction} :
                       ResetUserLimits(u, a)
    \/ Untouched /\ \E u \in ChatUsers, sid \in SessionIds, q \in PlainRequests :
          ChatTemplate(u, sid, q)
    \/ Untouched /\ \E s \in AllSessions : ClearChatHistory(s)

SpecKeys == InitKeys /\ [][NextKeys]_vars

\* ------------------------------------------- the gateway's other methods
\* A provider response is a text: a sequence of tokens.  Fence is a
\* triple-backtick code fence, Tag the language tag "json", Ws a run of
\* white space.  Between the braces of an object, "k" stands for the
\* members the schema expects, with values of the expected types, "x" for
\* an expected member whose value has another type, and a Fence for a
\* member whose string value contains a code fence.  "[]" is a JSON text
\* that is no object, "prose" a text that is no JSON.
Fence == "fence"
Tag == "json"
Ws == "\n"
MemberTokens == {"k", "x", Fence}

\* members of an object explored
MaxMembers == 2

\* the JSON objects, and the bodies a provider may answer with
JsonObjects == {<<"{">> \o m \o <<"}">> : m \in SeqsUpTo(MemberTokens, MaxMembers)}
Bodies == JsonObjects \cup {<<"[]">>, <<"prose">>}
Tags == {<<>>, <<Tag>>}
\* a body between a leading fence, with or without the tag, and a trailing one
Wrap(body, tag) == <<Fence>> \o tag \o <<Ws>> \o body \o <<Ws, Fence>>
Texts ==
    {<<>>, <<Ws>>} \cup Bodies \cup {Wrap(b, t) : b \in Bodies, t \in Tags}

\* what model.generate_content comes back with: an exception, or a
\* response with a text
ProviderResults ==
    {[raised |-> TRUE, text |-> <<>>]} \cup
    {[raised |-> FALSE, text |-> t] : t \in Texts}

\* str.strip()
RECURSIVE lstrip(_)
lstrip(t) == IF Len(t) > 0 /\ t[1] = Ws THEN lstrip(Tail(t)) ELSE t
RECURSIVE rstrip(_)
rstrip(t) ==
    IF Len(t) > 0 /\ t[Len(t)] = Ws THEN rstrip(SubSeq(t, 1, Len(t) - 1)) ELSE t
strip(t) == rstrip(lstrip(t))

startswith(t, tok) == Len(t) > 0 /\ t[1] = tok

\* t.split(Fence)[0]: the tokens before the first fence
RECURSIVE before_fence(_)
before_fence(t) ==
    IF Len(t) = 0 \/ t[1] = Fence THEN <<>>
    ELSE <<t[1]>> \o before_fence(Tail(t))

\* text.split(fence)[1] of a text that starts with a fence: what lies
\* between the first fence and the next one
split_1(t) == before_fence(Tail(t))

\* lines 253-259 (and 316-321, 385-390): the text handed to json.loads
clean(text) ==
    LET t == strip(text)
    IN  IF startswith(t, Fence)
        THEN LET u == split_1(t)
                 v == IF startswith(u, Tag) THEN Tail(u) ELSE u
             IN  strip(v)
        ELSE t

\* json.loads: the value, or a JSONDecodeError
ParseError == [type |-> "error", members |-> <<>>]
json_loads(text) ==
    LET t == strip(text)
    IN  IF t = <<"[]">> THEN [type |-> "array", members |-> <<>>]
        ELSE IF /\ Len(t) >= 2
                /\ t[1] = "{"
                /\ t[Len(t)] = "}"
                /\ \A i \in 2 .. (Len(t) - 1) : t[i] \in MemberTokens
        THEN [type |-> "object", members |-> SubSeq(t, 2, Len(t) - 1)]
        ELSE ParseError

Has(data, m) == \E i \in DOMAIN data.members : data.members[i] = m

\* what a gateway method returns: the template result, or a result built
\* from the JSON of the provider (complete: every expected member was there,
\* none was filled in by a default)
Template == [kind |-> "template", data |-> ParseError, complete |-> FALSE]
Built(data) == [kind |-> "built", data |-> data, complete |-> Has(data, "k")]
\* the method returned nothing: an exception left it
Raised == [kind |-> "raised", data |-> ParseError, complete |-> FALSE]

\* a structured method reaches model.generate_content (a suspension point)
\* only with a gateway that is initialized and has a model object: without
\* one the attribute access raises inside the try
calls_provider(g) == g.initialized /\ g.has_model

\* analyze_anomalies: an exception anywhere in the try (no model object,
\* the call, json.loads, .get on a value that is no dict, the validation of
\* AnomalyReport) leads to the template; a missing member gets the default
\* of its data.get
analyze_anomalies(g, r) ==
    IF ~g.initialized \/ ~g.has_model \/ r.raised \/ r.text = <<>>
    THEN Template
    ELSE LET data == json_loads(clean(r.text))
         IN  IF data.type # "object" \/ Has(data, "x") THEN Template
             ELSE Built(data)

\* models/analysis.py lines 90-94: the fields of HighestConsumer, all
\* required
HighestConsumerFields == {"load_name", "consumption_kwh", "percentage"}

\* EnergyInsight(..., highest_consumer = d), d a dict given by its keys:
\* models/analysis.py line 103 validates d as a HighestConsumer, and the
\* constructor raises ValidationError when a required field is missing
EnergyInsight(highest_consumer) ==
    [raised |-> ~(HighestConsumerFields \subseteq highest_consumer)]

\* _generate_fallback_energy_insight, lines 557-577: the template is built
\* with highest_consumer = {}
_generate_fallback_energy_insight ==
    IF EnergyInsight({}).raised THEN Raised ELSE Template

\* data.get("highest_consumer", {}), line 398
highest_consumer_of(data) ==
    IF Has(data, "k") THEN HighestConsumerFields ELSE {}

\* generate_energy_insights: an exception anywhere in the try leads to
\* _generate_fallback_energy_insight, which is called outside the try
\* (lines 343 and 409): what it raises leaves the method
generate_energy_insights(g, r) ==
    IF ~g.initialized THEN _generate_fallback_energy_insight
    ELSE IF ~g.has_model \/ r.raised \/ r.text = <<>>
    THEN _generate_fallback_energy_insight
    ELSE LET data == json_loads(clean(r.text))
         IN  IF \/ data.type # "object"
                \/ Has(data, "x")
                \/ EnergyInsight(highest_consumer_of(data)).raised
             THEN _generate_fallback_energy_insight
             ELSE Built(data)

\* get_control_recommendation: whatever json.loads returned is returned
get_control_recommendation(g, r) ==
    IF ~g.initialized \/ ~g.has_model \/ r.raised \/ r.text = <<>>
    THEN Template
    ELSE LET data == json_loads(clean(r.text))
         IN  IF data.type = "error" THEN Template
             ELSE [kind |-> "built", data |-> data, complete |-> Has(data, "k")]

\* generate_daily_summary, lines 416-448: the stripped text of the response
\* when it has one (a text of white space only is returned as the empty
\* string), the template after an exception or a response without text
generate_daily_summary(g, r) ==
    IF ~g.initialized \/ ~g.has_model \/ r.raised \/ r.text = <<>>
    THEN Template
    ELSE [kind |-> "built", data |-> strip(r.text),
          complete |-> strip(r.text) # <<>>]

\* the providers one call of a structured method sends a request to:
\* model.generate_content when there is a model object (without one the
\* attribute access raises inside the try), _call_cerebras never: only
\* chat calls it
structured_contacts(g, r) ==
    IF ~g.initialized THEN <<>>
    ELSE IF ~g.has_model THEN <<>>
    ELSE <<"gemini">>

\* the loads of get_system_context, and the load ids requested
ContextLoads == {1, 2, 3}
LoadIds == {1, 4}

\* POST /control-recommendation: 404 for an unknown load; result.get on a
\* value that is no dict and the validation of ControlRecommendation raise
\* into the handler of lines 134-136: 500
control_recommendation(g, load_id, r) ==
    IF load_id \notin ContextLoads THEN [status |-> 404, result |-> Template]
    ELSE LET result == get_control_recommendation(g, r)
         IN  IF result.kind = "template" THEN [status |-> 200, result |-> result]
             ELSE IF result.data.type # "object" \/ Has(result.data, "x")
             THEN [status |-> 500, result |-> result]
             ELSE [status |-> 200, result |-> result]

\* the process is started in environment env
Construct(env, sdk_ok) ==
    /\ fn' = [op |-> "init", env |-> env, sdk_ok |-> sdk_ok,
              made |-> new_GeminiService(env, sdk_ok)]
    /\ UNCHANGED <<limits, now, rl, incs, lock, llm, chat_sessions, inflight, resp,
                   sent, appended, cleared>>

\* the waiting calls are told apart by a slot number
Slots == 1 .. MaxHandlers
free_slot == CHOOSE i \in Slots :
                /\ \A r \in inflight : r.slot # i
                /\ \A j \in Slots : j < i => \E r \in inflight : r.slot = j

\* The calls of the structured methods.  With a gateway that has a model
\* object a call runs to `await asyncio.to_thread(self.model.generate_content,
\* prompt)` and waits there, in inflight, while other calls are served; it
\* ends in a second step, GenerateContentReturns, when the provider result
\* arrives.  Without a model object the call ends in the step it begins in.
Waiting(op, load_id) == [call |-> op, load_id |-> load_id, slot |-> free_slot]

\* the result of a call that made no provider request
NoResult == [raised |-> FALSE, text |-> <<>>]

\* what a call of method op that read the provider result r leaves: its
\* result, the providers it contacted and the status its endpoint answers
\* (500 for an exception that left the method)
returned(op, load_id, r) ==
    IF op = "anomaly"
    THEN [op |-> op, r |-> r, status |-> 200,
          result |-> analyze_anomalies(llm, r),
          contacted |-> structured_contacts(llm, r)]
    ELSE IF op = "energy"
    THEN [op |-> op, r |-> r,
          status |-> IF generate_energy_insights(llm, r).kind = "raised"
                     THEN 500 ELSE 200,
          result |-> generate_energy_insights(llm, r),
          contacted |-> structured_contacts(llm, r)]
    ELSE IF op = "control"
    THEN [op |-> op, r |-> r, load_id |-> load_id,
          status |-> control_recommendation(llm, load_id, r).status,
          result |-> control_recommendation(llm, load_id, r).result,
          contacted |-> IF load_id \in ContextLoads
                        THEN structured_contacts(llm, r) ELSE <<>>]
    ELSE [op |-> op, r |-> r, status |-> 200,
          result |-> generate_daily_summary(llm, r),
          contacted |-> structured_contacts(llm, r)]

\* method op is called: the call waits for the provider, or returns
call(op, load_id) ==
    /\ IF calls_provider(llm) /\ (op = "control" => load_id \in ContextLoads)
       THEN /\ Cardinality(inflight) < MaxHandlers
            /\ inflight' = inflight \cup {Waiting(op, load_id)}
            /\ fn' = fn
       ELSE /\ fn' = returned(op, load_id, NoResult)
            /\ inflight' = inflight
    /\ UNCHANGED <<limits, now, rl, incs, lock, llm, chat_sessions, resp,
                   sent, appended, cleared>>

AnalyzeAnomalies ==
    /\ Serving
    /\ call("anomaly", None)

GenerateEnergyInsights ==
    /\ Serving
    /\ call("energy", None)

\* POST /control-recommendation for load_id: the gateway is called for a
\* load that is found
ControlRecommendation(load_id) ==
    /\ Serving
    /\ call("control", load_id)

\* GET /insights/daily-summary: no quota, the summary of the gateway
GenerateDailySummary ==
    /\ Serving
    /\ call("summary", None)

\* model.generate_content of the waiting call w comes back with r: the
\* call resumes and ends
GenerateContentReturns(w, r) ==
    /\ fn' = returned(w.call, w.load_id, r)
    /\ inflight' = inflight \ {w}
    /\ UNCHANGED <<limits, now, rl, incs, lock, llm, chat_sessions, resp,
                   sent, appended, cleared>>

\* lines 253-262 applied to the body J between fences and to J alone
ParseResponse(J, tag) ==
    /\ Serving
    /\ fn' = [op |-> "parse", J |-> J, tag |-> tag,
              fenced |-> json_loads(clean(Wrap(J, tag))),
              plain |-> json_loads(clean(J))]
    /\ UNCHANGED <<limits, now, rl, incs, lock, llm, chat_sessions, inflight, resp,
                   sent, appended, cleared>>

InitGateway ==
    /\ ColdLimiter
    /\ ColdApp
    /\ \E fields \in SettingsClasses, env \in Environments, sdk_ok \in BOOLEAN :
          llm = import_main(fields, env, sdk_ok)
    /\ inflight = {}
    /\ resp = NoResp
    /\ sent = 0

NextGateway ==
    \/ \E env \in Environments, sdk_ok \in BOOLEAN : Construct(env, sdk_ok)
    \/ AnalyzeAnomalies
    \/ GenerateEnergyInsights
    \/ \E id \in LoadIds : ControlRecommendation(id)
    \/ GenerateDailySummary
    \/ \E w \in inflight, r \in ProviderResults : GenerateContentReturns(w, r)
    \/ \E J \in JsonObjects, tag \in Tags : ParseResponse(J, tag)

SpecGateway == InitGateway /\ [][NextGateway]_vars

\* ------------------------------------- the analysis and insights routers
\* POST /analysis/anomaly and GET /insights/energy: the two other endpoints
\* behind the rate limiter; both count under the action type "analysis"
Endpoints == {"anomaly", "insights"}

\* what the provider answers to a handler of these endpoints: an exception,
\* a JSON object of the expected shape, a text that is no JSON
Answers ==
    {[raised |-> TRUE, text |-> <<>>],
     [raised |-> FALSE, text |-> <<"{", "k", "}">>],
     [raised |-> FALSE, text |-> <<"prose">>]}

\* the detail of the 429 of an endpoint: analysis.py lines 64-69 copy
\* limit, remaining and reset_at; insights.py lines 100-104 copy remaining
\* and reset_at only
quota_detail(ep, rate_check) ==
    [limit |-> IF ep = "insights" THEN None ELSE rate_check.limit,
     remaining |-> rate_check.remaining,
     reset_at |-> rate_check.reset_at]

\* the gateway method behind an endpoint
structured(ep, g, r) ==
    IF ep = "anomaly" THEN analyze_anomalies(g, r)
    ELSE generate_energy_insights(g, r)

\* the action type an endpoint checks and counts its requests under
\* (analysis.py lines 60 and 81, insights.py lines 96 and 116)
quota_key(ep) == "analysis"

\* the check refuses the request: 429
AnalysisRejected(u, ep) ==
    /\ Serving
    /\ lock = Free
    /\ lock' = async_with_lock(lock)
    /\ ~admitted(check_rate_limit(limits, now, u, quota_key(ep),
                                  ANALYSIS_DAILY_LIMIT).result)
    /\ limits' = check_rate_limit(limits, now, u, quota_key(ep),
                                  ANALYSIS_DAILY_LIMIT).limits
    /\ rl' = CheckCall(limits, now, incs, u, quota_key(ep), ANALYSIS_DAILY_LIMIT)
    /\ incs' = incs_after_check(incs, limits, now, u, quota_key(ep))
    /\ resp' = [NoResp EXCEPT !.op = ep, !.status = 429, !.user = u,
                   !.limit = quota_detail(ep, rl').limit,
                   !.remaining = quota_detail(ep, rl').remaining,
                   !.reset_at = quota_detail(ep, rl').reset_at]
    /\ UNCHANGED <<now, llm, chat_sessions, inflight, sent, appended, cleared>>
    /\ fn' = NoFn

\* the check admits the request and the handler is suspended in the
\* provider call of the gateway method
AnalysisAdmitted(u, ep) ==
    /\ Serving
    /\ Cardinality(inflight) < MaxHandlers
    /\ sent < MaxMsgs
    /\ lock = Free
    /\ lock' = async_with_lock(lock)
    /\ admitted(check_rate_limit(limits, now, u, quota_key(ep),
                                 ANALYSIS_DAILY_LIMIT).result)
    /\ calls_provider(llm)
    /\ limits' = check_rate_limit(limits, now, u, quota_key(ep),
                                  ANALYSIS_DAILY_LIMIT).limits
    /\ rl' = CheckCall(limits, now, incs, u, quota_key(ep), ANALYSIS_DAILY_LIMIT)
    /\ incs' = incs_after_check(incs, limits, now, u, quota_key(ep))
    /\ inflight' = inflight \cup
          {[user |-> u, session |-> "", msg |-> next_msg, call |-> ep,
            attempts |-> <<>>,
            rate_check |-> RateCheck(u, quota_key(ep),
                check_rate_limit(limits, now, u, quota_key(ep),
                                 ANALYSIS_DAILY_LIMIT).result)]}
    /\ sent' = sent + 1
    /\ resp' = NoResp
    /\ UNCHANGED <<now, llm, chat_sessions, appended, cleared>>
    /\ fn' = NoFn

\* the gateway makes no provider call: the handler runs from the check to
\* the response without being suspended.  The template result is counted
\* and answered; an exception that leaves the gateway method is answered
\* with 500 by the handler's `except Exception`, before increment_count
AnalysisDirect(u, ep) ==
    /\ Serving
    /\ sent < MaxMsgs
    /\ lock = Free
    /\ async_with_lock(lock) = Free
    /\ admitted(check_rate_limit(limits, now, u, quota_key(ep),
                                 ANALYSIS_DAILY_LIMIT).result)
    /\ ~calls_provider(llm)
    /\ LET c == check_rate_limit(limits, now, u, quota_key(ep), ANALYSIS_DAILY_LIMIT)
           n == incs_after_check(incs, limits, now, u, quota_key(ep))
           result == structured(ep, llm, NoResult)
       IN  IF result.kind = "raised"
           THEN /\ lock' = async_with_lock(lock)
                /\ limits' = c.limits
                /\ rl' = CheckCall(limits, now, incs, u, quota_key(ep),
                                   ANALYSIS_DAILY_LIMIT)
                /\ incs' = n
                /\ resp' = [NoResp EXCEPT !.op = ep, !.status = 500, !.user = u,
                                          !.msg = next_msg, !.by = result.kind]
           ELSE /\ lock' = async_with_lock(async_with_lock(lock))
                /\ limits' = increment_count(c.limits, u, quota_key(ep)).limits
                /\ rl' = [IncrementCall(c.limits, now, n, u, quota_key(ep)) EXCEPT
                             !.rate_check = RateCheck(u, quota_key(ep), c.result)]
                /\ incs' = [n EXCEPT ![u][quota_key(ep)] = @ + 1]
                /\ resp' = [NoResp EXCEPT !.op = ep, !.status = 200, !.user = u,
                                          !.msg = next_msg, !.by = result.kind]
    /\ sent' = sent + 1
    /\ UNCHANGED <<now, llm, chat_sessions, inflight, appended, cleared>>
    /\ fn' = NoFn

\* the provider call of handler r returns: the report is built (or the
\* template taken), the request is counted and answered; an exception that
\* leaves the gateway method is answered with 500 and nothing is counted
AnalysisReturns(r, answer) ==
    /\ r.call \in Endpoints
    /\ LET result == structured(r.call, llm, answer)
       IN  IF result.kind = "raised"
           THEN /\ rl' = NoCall
                /\ resp' = [NoResp EXCEPT !.op = r.call, !.status = 500,
                               !.user = r.user, !.msg = r.msg, !.by = result.kind,
                               !.attempts = <<Attempt("gemini", FALSE)>>]
                /\ UNCHANGED <<limits, incs, lock>>
           ELSE /\ lock = Free
                /\ lock' = async_with_lock(lock)
                /\ limits' = increment_count(limits, r.user, quota_key(r.call)).limits
                /\ rl' = [IncrementCall(limits, now, incs, r.user, quota_key(r.call))
                             EXCEPT !.rate_check = r.rate_check]
                /\ incs' = [incs EXCEPT ![r.user][quota_key(r.call)] = @ + 1]
                /\ resp' = [NoResp EXCEPT !.op = r.call, !.status = 200,
                               !.user = r.user, !.msg = r.msg, !.by = result.kind,
                               !.attempts = <<Attempt("gemini", result.kind = "built")>>]
    /\ inflight' = inflight \ {r}
    /\ UNCHANGED <<now, llm, chat_sessions, sent, appended, cleared>>
    /\ fn' = NoFn

\* the response of POST /analysis/control-recommendation for load_id after
\* the provider result `answer`
control_response(load_id, answer) ==
    [NoResp EXCEPT !.op = "control", !.msg = load_id,
        !.status = control_recommendation(llm, load_id, answer).status,
        !.by = control_recommendation(llm, load_id, answer).result.kind,
        !.attempts =
            IF load_id \in ContextLoads /\ calls_provider(llm)
            THEN <<Attempt("gemini",
                     control_recommendation(llm, load_id, answer).result.kind
                         = "built")>>
            ELSE <<>>]

\* POST /analysis/control-recommendation: the load is looked up first; the
\* gateway is called for a load found, and the handler is suspended in the
\* provider call when the gateway makes one
GetControlRecommendation(load_id) ==
    /\ Serving
    /\ IF load_id \in ContextLoads /\ calls_provider(llm)
       THEN /\ Cardinality(inflight) < MaxHandlers
            /\ sent < MaxMsgs
            /\ inflight' = inflight \cup
                  {[user |-> "", session |-> "", msg |-> next_msg,
                    call |-> "control", attempts |-> <<>>,
                    rate_check |-> NoRateCheck, load_id |-> load_id]}
            /\ sent' = sent + 1
            /\ resp' = NoResp
       ELSE /\ resp' = control_response(load_id, NoResult)
            /\ UNCHANGED <<inflight, sent>>
    /\ rl' = NoCall
    /\ UNCHANGED <<limits, now, incs, lock, llm, chat_sessions,
                   appended, cleared>>
    /\ fn' = NoFn

\* the provider call of the control-recommendation handler r returns
ControlReturns(r, answer) ==
    /\ r.call = "control"
    /\ resp' = control_response(r.load_id, answer)
    /\ inflight' = inflight \ {r}
    /\ rl' = NoCall
    /\ UNCHANGED <<limits, now, incs, lock, llm, chat_sessions, sent,
                   appended, cleared>>
    /\ fn' = NoFn

\* GET /analysis/load/{load_id}, lines 147-158: no provider is involved
analyze_load(load_id) ==
    IF load_id \in ContextLoads THEN 200 ELSE 404

AnalyzeLoad(load_id) ==
    /\ Serving
    /\ resp' = [NoResp EXCEPT !.op = "load", !.msg = load_id,
                              !.status = analyze_load(load_id), !.by = "rules"]
    /\ rl' = NoCall
    /\ UNCHANGED <<limits, now, incs, lock, llm, chat_sessions, inflight, sent,
                   appended, cleared>>
    /\ fn' = NoFn

\* A process that has been serving u1 for a while: one request below the
\* limit under both action types.
WarmService ==
    /\ limits = [u \in Users |-> [a \in Actions |->
                    IF u = "u1"
                    THEN [present |-> TRUE,
                          count |-> IF a = "chat" THEN CHAT_DAILY_LIMIT - 1
                                    ELSE ANALYSIS_DAILY_LIMIT - 1,
                          reset_at |-> Day]
                    ELSE NoEntry]]
    /\ now = 0
    /\ rl = NoCall
    /\ incs = [u \in Users |-> [a \in Actions |->
                    IF u # "u1" THEN 0
                    ELSE IF a = "chat" THEN CHAT_DAILY_LIMIT - 1
                    ELSE ANALYSIS_DAILY_LIMIT - 1]]
    /\ lock = Free

InitService ==
    /\ \E fields \in SettingsClasses, env \in Environments, sdk_ok \in BOOLEAN :
          llm = import_main(fields, env, sdk_ok)
    /\ ColdLimiter \/ (Serving /\ WarmService)
    /\ ColdApp
    /\ inflight = {}
    /\ resp = NoResp
    /\ sent = 0

NextService ==
    \/ Tick(Day)
    \/ \E u \in ChatUsers, sid \in SessionIds : ChatRejected(u, sid)
    \/ \E u \in ChatUsers, sid \in SessionIds : ChatAdmitted(u, sid)
    \/ \E u \in ChatUsers, sid \in SessionIds, q \in PlainRequests :
          ChatTemplate(u, sid, q)
    \/ \E r \in inflight, o \in GeminiOutcomes, q \in PlainRequests :
          GeminiReturns(r, o, q)
    \/ \E r \in inflight, o \in CerebrasOutcomes, q \in PlainRequests :
          CerebrasReturns(r, o, q)
    \/ \E u \in ChatUsers, ep \in Endpoints : AnalysisRejected(u, ep)
    \/ \E u \in ChatUsers, ep \in Endpoints : AnalysisAdmitted(u, ep)
    \/ \E u \in ChatUsers, ep \in Endpoints : AnalysisDirect(u, ep)
    \/ \E r \in inflight, a \in Answers : AnalysisReturns(r, a)
    \/ \E id \in LoadIds : GetControlRecommendation(id)
    \/ \E r \in inflight, a \in Answers : ControlReturns(r, a)
    \/ \E id \in LoadIds : AnalyzeLoad(id)
    \/ \E s \in AllSessions : GetChatHistory(s)
    \/ \E s \in AllSessions : ClearChatHistory(s)
    \/ \E u \in ChatUsers : GetRateLimitStatus(u)

SpecService == InitService /\ [][NextService]_vars

\* ------------------------------------------- the lock, section by section
\* The chat router with every `async with self._lock:` block of the rate
\* limiter entered in one step and left in the next.  A handler runs from
\* one suspension to the next without another handler running in between
\* (one event loop): a new request is started, and a handler resumed, only
\* when no handler is inside a block.  The requests are of both users and
\* name the session "s1".
Providers == {"gemini", "cerebras"}
Sections == {"check", "increment", "stats", "status"}

\* the handlers suspended in a provider call, and those inside a block
Pending == {r \in inflight : r.call \in Providers}
Inside == {r \in inflight : r.call \in Sections}

\* mutant: leaving the block does not release the lock
release_kept(lk) == lk

\* Lock.release, called when the block is left
release(lk) == Free

\* Lock.acquire on a lock that is not locked: it is taken and the caller
\* goes on without being suspended (the steps below wait for lock = Free)
acquire(lk) == Held

\* a handler at the place `at`
Handler(u, session, msg, at) ==
    [user |-> u, session |-> session, msg |-> msg, call |-> at,
     attempts |-> <<>>, rate_check |-> NoRateCheck, by |-> "", text |-> Blank,
     usage |-> NoCall.stats]

\* handler r replaced by h
Moved(r, h) == (inflight \ {r}) \cup {h}

\* chat, line 109, to check_rate_limit, line 41: a chat request arrives and
\* its handler enters the block of the check
ChatEnters(u, sid) ==
    /\ Serving
    /\ Inside = {}
    /\ Cardinality(inflight) < MaxHandlers
    /\ sent < MaxMsgs
    /\ lock = Free
    /\ lock' = acquire(lock)
    /\ inflight' = inflight \cup {Handler(u, session_of(sid, u), next_msg, "check")}
    /\ sent' = sent + 1
    /\ rl' = NoCall
    /\ resp' = NoResp
    /\ fn' = NoFn
    /\ UNCHANGED <<limits, now, incs, llm, chat_sessions, appended, cleared>>

\* check_rate_limit, lines 42-63, and chat, lines 115-163: the check is
\* made and its block left.  A refused request is answered 429.  An
\* admitted one goes on to GeminiService.chat, which composes the prompt and
\* is suspended in a provider call; with a gateway that makes no call chat
\* returns the template at once, the handler stores the exchange and enters
\* the block of increment_count.
ChatChecked(r) ==
    /\ r.call = "check"
    /\ LET c == check_rate_limit(limits, now, r.user, "chat", CHAT_DAILY_LIMIT)
           rate_check == RateCheck(r.user, "chat", c.result)
           start == chat_start(llm)
       IN  /\ limits' = c.limits
           /\ rl' = CheckCall(limits, now, incs, r.user, "chat", CHAT_DAILY_LIMIT)
           /\ incs' = incs_after_check(incs, limits, now, r.user, "chat")
           /\ IF ~admitted(c.result)
              THEN /\ lock' = release(lock)
                   /\ inflight' = inflight \ {r}
                   /\ resp' = [NoResp EXCEPT !.op = "chat", !.status = 429,
                                  !.user = r.user, !.session = r.session,
                                  !.limit = c.result.limit,
                                  !.remaining = c.result.remaining,
                                  !.reset_at = c.result.reset_at]
                   /\ fn' = NoFn
                   /\ UNCHANGED <<chat_sessions, appended, cleared>>
              ELSE IF start.next = "return"
              THEN /\ release(lock) = Free
                   /\ lock' = acquire(release(lock))
                   /\ inflight' = Moved(r, [r EXCEPT !.call = "increment",
                                               !.rate_check = rate_check,
                                               !.by = start.by, !.text = start.text,
                                               !.attempts = start.attempts])
                   /\ chat_sessions' = append_exchange(chat_sessions, r.session, r.msg)
                   /\ appended' = [appended EXCEPT ![r.session] =
                                      @ \o ExchangeOf(r.msg)]
                   /\ cleared' = cleared \ {r.session}
                   /\ resp' = NoResp
                   /\ fn' = NoFn
              ELSE /\ lock' = release(lock)
                   /\ inflight' = Moved(r, [r EXCEPT !.call = start.next,
                                               !.rate_check = rate_check,
                                               !.attempts = start.attempts])
                   /\ resp' = NoResp
                   /\ fn' = composed(r.session, r.msg,
                                     session_get(chat_sessions, r.session))
                   /\ UNCHANGED <<chat_sessions, appended, cleared>>
    /\ UNCHANGED <<now, llm, sent>>

\* chat, lines 143-163, after GeminiService.chat went on from a provider
\* call with c: it returned, and the handler stores the exchange and enters
\* the block of increment_count; it raised, and the handler answers 500; it
\* is suspended in the next provider call
Resumed(r, c) ==
    /\ Inside = {}
    /\ IF c.next = "return"
       THEN /\ lock = Free
            /\ lock' = acquire(lock)
            /\ inflight' = Moved(r, [r EXCEPT !.call = "increment", !.by = c.by,
                                        !.text = c.text, !.attempts = c.attempts])
            /\ chat_sessions' = append_exchange(chat_sessions, r.session, r.msg)
            /\ appended' = [appended EXCEPT ![r.session] = @ \o ExchangeOf(r.msg)]
            /\ cleared' = cleared \ {r.session}
            /\ resp' = NoResp
       ELSE IF c.next = "raise"
       THEN /\ inflight' = inflight \ {r}
            /\ resp' = [NoResp EXCEPT !.op = "chat", !.status = 500,
                           !.user = r.user, !.session = r.session, !.msg = r.msg,
                           !.attempts = c.attempts]
            /\ UNCHANGED <<lock, chat_sessions, appended, cleared>>
       ELSE /\ inflight' = Moved(r, [r EXCEPT !.call = c.next,
                                        !.attempts = c.attempts])
            /\ resp' = NoResp
            /\ UNCHANGED <<lock, chat_sessions, appended, cleared>>
    /\ rl' = NoCall
    /\ fn' = NoFn
    /\ UNCHANGED <<limits, now, incs, llm, sent>>

\* the primary call of handler r returns
GeminiAnswers(r, outcome) ==
    /\ r.call = "gemini"
    /\ Resumed(r, after_gemini(llm, outcome))

\* the secondary call of handler r returns
CerebrasAnswers(r, outcome) ==
    /\ r.call = "cerebras"
    /\ Resumed(r, after_cerebras(r.attempts, outcome))

\* increment_count, lines 73-75, and chat, lines 165-173: the request is
\* counted, the block left and the response sent
ChatCounted(r, q) ==
    /\ r.call = "increment"
    /\ lock' = release(lock)
    /\ limits' = increment_count(limits, r.user, "chat").limits
    /\ rl' = [IncrementCall(limits, now, incs, r.user, "chat")
                 EXCEPT !.rate_check = r.rate_check]
    /\ incs' = [incs EXCEPT ![r.user]["chat"] = @ + 1]
    /\ resp' = [NoResp EXCEPT !.op = "chat", !.status = 200, !.user = r.user,
                              !.session = r.session, !.msg = r.msg,
                              !.by = r.by,
                              !.text = response_of(q, [by |-> r.by, text |-> r.text]),
                              !.attempts = r.attempts,
                              !.ai_enabled = llm.initialized]
    /\ inflight' = inflight \ {r}
    /\ fn' = NoFn
    /\ UNCHANGED <<now, llm, chat_sessions, sent, appended, cleared>>

\* get_rate_limit_status, line 264, to get_usage_stats, line 81: a status
\* request arrives and its handler enters the block of get_usage_stats
StatusEnters(u) ==
    /\ Serving
    /\ Inside = {}
    /\ lock = Free
    /\ lock' = acquire(lock)
    /\ inflight' = inflight \cup {Handler(u, "", 0, "stats")}
    /\ rl' = NoCall
    /\ resp' = NoResp
    /\ fn' = NoFn
    /\ UNCHANGED <<limits, now, incs, llm, chat_sessions, sent, appended, cleared>>

\* get_usage_stats, lines 82-91, and get_rate_limit_status, line 265: the
\* usage is read, the block left and the block of the check entered
StatusRead(r) ==
    /\ r.call = "stats"
    /\ release(lock) = Free
    /\ lock' = acquire(release(lock))
    /\ inflight' = Moved(r, [r EXCEPT !.call = "status",
                                !.usage = get_usage_stats(limits, now, r.user)])
    /\ rl' = [NoCall EXCEPT !.op = "stats", !.user = r.user, !.at = now,
                            !.stats = get_usage_stats(limits, now, r.user)]
    /\ resp' = NoResp
    /\ fn' = NoFn
    /\ UNCHANGED <<limits, now, incs, llm, chat_sessions, sent, appended, cleared>>

\* check_rate_limit, lines 42-63, and get_rate_limit_status, lines 267-274:
\* the check is made, the block left and the status sent
StatusChecked(r) ==
    /\ r.call = "status"
    /\ lock' = release(lock)
    /\ limits' = check_rate_limit(limits, now, r.user, "chat", CHAT_DAILY_LIMIT).limits
    /\ rl' = CheckCall(limits, now, incs, r.user, "chat", CHAT_DAILY_LIMIT)
    /\ incs' = incs_after_check(incs, limits, now, r.user, "chat")
    /\ resp' = [NoResp EXCEPT !.op = "rate-limit", !.status = 200, !.user = r.user,
                   !.limit = rl'.limit, !.remaining = rl'.remaining,
                   !.reset_at = rl'.reset_at, !.usage = r.usage]
    /\ inflight' = inflight \ {r}
    /\ fn' = NoFn
    /\ UNCHANGED <<now, llm, chat_sessions, sent, appended, cleared>>

\* a history request is served
HistoryRead(s) ==
    /\ Inside = {}
    /\ GetChatHistory(s)

\* a clear request is served
HistoryCleared(s) ==
    /\ Inside = {}
    /\ ClearChatHistory(s)

InitLock ==
    /\ \E fields \in SettingsClasses, env \in Environments, sdk_ok \in BOOLEAN :
          llm = import_main(fields, env, sdk_ok)
    /\ ColdLimiter
    /\ ColdApp
    /\ inflight = {}
    /\ resp = NoResp
    /\ sent = 0

NextLock ==
    \/ Tick(Day)
    \/ \E u \in Users : ChatEnters(u, "s1")
    \/ \E r \in inflight : ChatChecked(r)
    \/ \E r \in inflight, o \in GeminiOutcomes : GeminiAnswers(r, o)
    \/ \E r \in inflight, o \in CerebrasOutcomes : CerebrasAnswers(r, o)
    \/ \E r \in inflight, q \in PlainRequests : ChatCounted(r, q)
    \/ \E u \in Users : StatusEnters(u)
    \/ \E r \in inflight : StatusRead(r)
    \/ \E r \in inflight : StatusChecked(r)
    \/ \E s \in AllSessions : HistoryRead(s)
    \/ \E s \in AllSessions : HistoryCleared(s)

SpecLock == InitLock /\ [][NextLock]_vars

\* ------------------------------------------------- requests of two users
\* The same routers with requests of both users.  The process has no key,
\* or both keys and a working SDK; it has been serving u1 for a while and
\* has not seen u2; the chat requests name the session "s1".
InitUsers ==
    /\ \E fields \in SettingsClasses,
          env \in {NoKeys, [gemini_api_key |-> TRUE, cerebras_api_key |-> TRUE]} :
          llm = import_main(fields, env, TRUE)
    /\ IF Serving THEN WarmService ELSE ColdLimiter
    /\ ColdApp
    /\ inflight = {}
    /\ resp = NoResp
    /\ sent = 0

NextUsers ==
    \/ Tick(Day)
    \/ \E u \in Users : ChatRejected(u, "s1")
    \/ \E u \in Users : ChatAdmitted(u, "s1")
    \/ \E u \in Users, q \in PlainRequests : ChatTemplate(u, "s1", q)
    \/ \E r \in inflight, o \in GeminiOutcomes, q \in PlainRequests :
          GeminiReturns(r, o, q)
    \/ \E r \in inflight, o \in CerebrasOutcomes, q \in PlainRequests :
          CerebrasReturns(r, o, q)
    \/ \E u \in Users, ep \in Endpoints : AnalysisRejected(u, ep)
    \/ \E u \in Users, ep \in Endpoints : AnalysisAdmitted(u, ep)
    \/ \E u \in Users, ep \in Endpoints : AnalysisDirect(u, ep)
    \/ \E r \in inflight, a \in Answers : AnalysisReturns(r, a)
    \/ \E id \in LoadIds : GetControlRecommendation(id)
    \/ \E r \in inflight, a \in Answers : ControlReturns(r, a)
    \/ \E id \in LoadIds : AnalyzeLoad(id)
    \/ \E s \in AllSessions : GetChatHistory(s)
    \/ \E s \in AllSessions : ClearChatHistory(s)
    \/ \E u \in Users : GetRateLimitStatus(u)

SpecUsers == InitUsers /\ [][NextUsers]_vars

\* ------------------------------------------- the prompt called directly
\* turns of a history handed to GeminiService.chat
MaxTurns == 7
Roles == {"user", "assistant", "system"}
\* a history: turn i has the role q[i] and the content of message i
Histories ==
    {[i \in 1 .. Len(q) |-> Turn(q[i], i)] : q \in SeqsUpTo(Roles, MaxTurns)}

\* GeminiService.chat of an initialized gateway called with a history of any
\* roles and a new message, lines 118-161: the prompt it has composed when
\* it reaches its first provider call.  One such call is made, to a fresh
\* process.
ComposePrompt(chat_history) ==
    /\ Serving
    /\ llm.initialized
    /\ fn = NoFn
    /\ Untouched
    /\ now = 0
    /\ sent = 0
    /\ chat_sessions = NoStore
    /\ fn' = composed("", Len(chat_history) + 1, chat_history)
    /\ UNCHANGED <<limits, now, rl, incs, lock, llm, chat_sessions, inflight, resp,
                   sent, appended, cleared>>

\* the exchanges a process has served in session "s1" when it is first
\* observed: none, or as many as fill the history section of a prompt
PromptPrior == {0, PROMPT_TURNS \div 2}

\* A fresh process (n = 0), or one that has been serving u1 for a while: 99
\* chat requests counted in the current window, the exchanges of the last
\* n of them stored in session "s1".
Served(n) ==
    /\ limits = [u \in Users |-> [a \in Actions |->
                    IF n > 0 /\ u = "u1" /\ a = "chat"
                    THEN [present |-> TRUE, count |-> CHAT_DAILY_LIMIT - 1,
                          reset_at |-> Day]
                    ELSE NoEntry]]
    /\ incs = [u \in Users |-> [a \in Actions |->
                    IF n > 0 /\ u = "u1" /\ a = "chat"
                    THEN CHAT_DAILY_LIMIT - 1 ELSE 0]]
    /\ now = 0
    /\ rl = NoCall
    /\ lock = Free
    /\ chat_sessions =
          [s \in {t \in {"s1"} : n > 0} |->
              Exchanges(PriorExchanges - n + 1, PriorExchanges)]
    /\ appended = [s \in AllSessions |->
                     IF s = "s1"
                     THEN Exchanges(PriorExchanges - n + 1, PriorExchanges)
                     ELSE <<>>]
    /\ cleared = {}
    /\ fn = NoFn

InitPrompt ==
    /\ \E fields \in SettingsClasses, env \in Environments, sdk_ok \in BOOLEAN :
          llm = import_main(fields, env, sdk_ok)
    /\ \E n \in PromptPrior : (n > 0 => Serving) /\ Served(n)
    /\ inflight = {}
    /\ resp = NoResp
    /\ sent = 0

\* the chat router, and chat called directly
NextPrompt ==
    \/ Tick(Day)
    \/ \E u \in ChatUsers, sid \in SessionIds : ChatRejected(u, sid)
    \/ \E u \in ChatUsers, sid \in SessionIds : ChatAdmitted(u, sid)
    \/ \E u \in ChatUsers, sid \in SessionIds, q \in PlainRequests :
          ChatTemplate(u, sid, q)
    \/ \E r \in inflight, o \in GeminiOutcomes, q \in PlainRequests :
          GeminiReturns(r, o, q)
    \/ \E r \in inflight, o \in CerebrasOutcomes, q \in PlainRequests :
          CerebrasReturns(r, o, q)
    \/ \E s \in AllSessions : GetChatHistory(s)
    \/ \E s \in AllSessions : ClearChatHistory(s)
    \/ \E u \in ChatUsers : GetRateLimitStatus(u)
    \/ Untouched /\ sent = 0 /\ \E h \in Histories : ComposePrompt(h)

SpecPrompt == InitPrompt /\ [][NextPrompt]_vars

\* ---------------------------------------------------- the agent's calls
\* The functions of the agent keep no state: each behaviour is one call,
\* applied to arguments drawn from the sets above.
DetectIntent(message) ==
    /\ Serving
    /\ fn = NoFn
    /\ fn' = [op |-> "detect_intent", message |-> message,
              scores |-> intent_scores(lower(message)),
              intent |-> detect_intent(message)]
    /\ UNCHANGED <<limits, now, rl, incs, lock, llm, chat_sessions, inflight, resp,
                   sent, appended, cleared>>

ExtractEntities(message) ==
    /\ Serving
    /\ fn = NoFn
    /\ fn' = [op |-> "extract_entities", message |-> message,
              entities |-> extract_entities(message)]
    /\ UNCHANGED <<limits, now, rl, incs, lock, llm, chat_sessions, inflight, resp,
                   sent, appended, cleared>>

GetQuickInsights(loads, alerts, hour) ==
    /\ Serving
    /\ fn = NoFn
    /\ fn' = [op |-> "quick_insights", loads |-> loads, alerts |-> alerts,
              hour |-> hour,
              insights |-> get_quick_insights(loads, alerts, hour)]
    /\ UNCHANGED <<limits, now, rl, incs, lock, llm, chat_sessions, inflight, resp,
                   sent, appended, cleared>>

GetIntentGuidance(intent, heap) ==
    /\ Serving
    /\ fn = NoFn
    /\ fn' = [op |-> "guidance", intent |-> intent, heap |-> heap,
              guidance |-> get_intent_guidance(intent, heap, "system_context")]
    /\ UNCHANGED <<limits, now, rl, incs, lock, llm, chat_sessions, inflight, resp,
                   sent, appended, cleared>>

ProcessQuery(message, heap) ==
    /\ Serving
    /\ fn = NoFn
    /\ fn' = [op |-> "process_query", message |-> message, heap |-> heap,
              result |-> process_query(message, heap)]
    /\ UNCHANGED <<limits, now, rl, incs, lock, llm, chat_sessions, inflight, resp,
                   sent, appended, cleared>>

GetSystemHealth(loads, alerts) ==
    /\ Serving
    /\ fn = NoFn
    /\ fn' = [op |-> "system_health", loads |-> loads, alerts |-> alerts,
              health |-> get_system_health(loads, alerts)]
    /\ UNCHANGED <<limits, now, rl, incs, lock, llm, chat_sessions, inflight, resp,
                   sent, appended, cleared>>

GenerateFallbackResponse(message, heap) ==
    /\ Serving
    /\ fn = NoFn
    /\ fn' = [op |-> "fallback", message |-> message, heap |-> heap,
              response |-> _generate_fallback_response(message, heap,
                                                       "system_context")]
    /\ UNCHANGED <<limits, now, rl, incs, lock, llm, chat_sessions, inflight, resp,
                   sent, appended, cleared>>

InitAgent ==
    /\ ColdLimiter
    /\ ColdApp
    /\ \E fields \in SettingsClasses : llm = import_main(fields, NoKeys, FALSE)
    /\ inflight = {}
    /\ resp = NoResp
    /\ sent = 0

NextAgent ==
    \/ \E m \in Messages : DetectIntent(m)
    \/ \E m \in Messages : ExtractEntities(m)
    \/ \E loads \in LoadLists, alerts \in AlertLists, hour \in Hours :
          GetQuickInsights(loads, alerts, hour)
    \/ \E n \in DOMAIN QuestionIntent, heap \in Contexts :
          GetIntentGuidance(QuestionIntent[n], heap)
    \/ \E m \in Messages,
          heap \in {EmptyContext,
                    Context(<<Load(TRUE, 45), Load(TRUE, 60), Load(FALSE, 0)>>,
                            <<"warning">>)} :
          ProcessQuery(m, heap)
    \/ \E m \in FallbackMessages, heap \in FallbackContexts :
          GenerateFallbackResponse(m, heap)
    \/ \E loads \in LoadLists, alerts \in AlertLists : GetSystemHealth(loads, alerts)

SpecAgent == InitAgent /\ [][NextAgent]_vars

\* ------------------------------------------------- rate limiter properties
\* the entry of the key of the last RateLimiter call
LastEntry == limits[rl.user][rl.action]

\* the key of the last call had a window that was still open at the call
InWindow == rl.pre.reset_at # None /\ rl.at < rl.pre.reset_at

\* the key of the last call had a window that had expired at the call
Expired == rl.pre.reset_at # None /\ rl.at >= rl.pre.reset_at

\* C2 as stated: starting from a count of 0 (also on a key never touched),
\* N increments and then a check before the boundary with limit > N report
\* current_count = N and allowed = (N < limit).
C2_Original ==
    (rl.op = "check" /\ (rl.pre.reset_at = None \/ rl.at < rl.pre.reset_at)
                     /\ rl.limit > rl.pre_incs)
        => (rl.current_count = rl.pre_incs /\ rl.allowed = (rl.pre_incs < rl.limit))

\* C2 amended: on a key whose window was opened by a check, N increments
\* and then a check before the boundary with limit > N report
\* current_count = N and allowed; on a key without reset_at the check
\* itself zeroes the count and reports 0.
C2_IncrementsThenCheck ==
    rl.op = "check" =>
        /\ (InWindow /\ rl.limit > rl.pre_incs)
              => (rl.current_count = rl.pre_incs /\ rl.allowed)
        /\ rl.pre.reset_at = None => rl.current_count = 0

C2_Witness ==
    rl.op = "check" /\ InWindow /\ rl.pre_incs = 2 /\ rl.limit = 3
                    /\ rl.current_count = 2

\* C3: a check made before the key's reset_at changes neither the count
\* nor reset_at, and reports the stored count.
C3_CheckReadOnly ==
    (rl.op = "check" /\ InWindow) =>
        /\ LastEntry = rl.pre
        /\ rl.current_count = rl.pre.count
        /\ rl.reset_at = rl.pre.reset_at

C3_Witness ==
    rl.op = "check" /\ InWindow /\ rl.pre.count = 2 /\ LastEntry.count = 2

\* the effect of a check on the entry of its key
C4_State ==
    rl.op = "check" =>
        IF rl.pre.reset_at = None \/ rl.at >= rl.pre.reset_at
        THEN /\ LastEntry.count = 0
             /\ LastEntry.reset_at = ((rl.at \div Day) + 1) * Day
             /\ LastEntry.reset_at > rl.at
             /\ rl.current_count = 0
        ELSE /\ LastEntry.count = rl.pre.count
             /\ LastEntry.reset_at = rl.pre.reset_at

\* a step that gives a key a new reset_at, or a count of 0 it did not have,
\* is a check of that key made when the key needed the reset
C4_Step ==
    \A u \in Users, a \in Actions :
        (\/ limits'[u][a].reset_at \notin {None, limits[u][a].reset_at}
         \/ (limits'[u][a].count = 0 /\ limits[u][a].count # 0))
            => /\ rl'.op = "check" /\ rl'.user = u /\ rl'.action = a
               /\ rl'.at = now
               /\ (limits[u][a].reset_at = None \/ now >= limits[u][a].reset_at)

\* C4: a check resets (count 0, reset_at the next midnight after now) in
\* the same call exactly when the key has no reset_at or now >= reset_at,
\* and leaves count and reset_at alone otherwise; no step other than such
\* a check gives a key a new reset_at or zeroes a stored count.
C4_ResetInCheck == []C4_State /\ [][C4_Step]_vars

C4_Witness ==
    rl.op = "check" /\ Expired /\ rl.pre.count = 2 /\ LastEntry.count = 0
                    /\ rl.at % Day # 0

\* C5 as stated: a check at any time after the boundary shows count 0 and
\* a reset_at exactly one day after the prior reset_at.
C5_Original ==
    (rl.op = "check" /\ Expired)
        => (rl.current_count = 0 /\ rl.reset_at = rl.pre.reset_at + Day)

\* C5 amended: a check after the boundary shows count 0 and a reset_at
\* that is the first midnight after the check: a whole number of days
\* (at least one) after the prior reset_at, and exactly one day after it
\* when the check comes less than a day after the boundary; the new
\* window is then open, so a further check in it does not reset.
C5_WindowReset ==
    (rl.op = "check" /\ Expired) =>
        /\ rl.current_count = 0
        /\ rl.reset_at > rl.at /\ rl.reset_at - Day <= rl.at
        /\ rl.reset_at >= rl.pre.reset_at + Day
        /\ (rl.reset_at - rl.pre.reset_at) % Day = 0
        /\ rl.at < rl.pre.reset_at + Day => rl.reset_at = rl.pre.reset_at + Day
        /\ ~needs_reset(LastEntry, rl.at)

C5_Witness ==
    rl.op = "check" /\ Expired /\ rl.pre.count >= 1
                    /\ rl.reset_at = rl.pre.reset_at + Day

\* C6: every result of a check has allowed = (current_count < limit) and
\* remaining = max(0, limit - current_count), so allowed holds exactly
\* when remaining > 0 and remaining is never negative.
C6_ResultShape ==
    rl.op = "check" =>
        /\ rl.allowed = (rl.current_count < rl.limit)
        /\ rl.remaining =
              IF rl.limit > rl.current_count THEN rl.limit - rl.current_count ELSE 0
        /\ rl.allowed = (rl.remaining > 0)
        /\ rl.remaining >= 0
        /\ rl.current_count = Get(LastEntry.count, 0)

C6_Witness ==
    rl.op = "check" /\ rl.current_count = rl.limit /\ rl.limit >= 1
                    /\ ~rl.allowed /\ rl.remaining = 0

\* C7: increment_count adds exactly 1 to the count, returns the new count
\* and leaves reset_at as it was, also when the window has expired.
C7_IncrementOnly ==
    rl.op = "increment" =>
        /\ LastEntry.count = Get(rl.pre.count, 0) + 1
        /\ rl.new_count = LastEntry.count
        /\ LastEntry.reset_at = rl.pre.reset_at
        /\ LastEntry.present

C7_Witness ==
    rl.op = "increment" /\ Expired /\ rl.pre.count = 1 /\ LastEntry.count = 2
                        /\ needs_reset(LastEntry, now)

\* ------------------------------------------------------ endpoint properties
Min(a, b) == IF a <= b THEN a ELSE b

\* C1: with concurrent chat handlers of one user, each doing check, then
\* the provider call, then increment, the key's count never exceeds the
\* limit.
C1_QuotaNeverExceeded ==
    \A u \in Users : Get(limits[u]["chat"].count, 0) <= CHAT_DAILY_LIMIT

\* C8: every session holds at most 20 entries, and they are the most
\* recent entries appended since its last clear, in their order; a history
\* read returns exactly the stored entries.
C8_HistoryCapFifo ==
    /\ \A s \in AllSessions :
          LET h == session_get(chat_sessions, s)
              a == appended[s]
          IN  /\ Len(h) <= 20
              /\ Len(h) = Min(20, Len(a))
              /\ \A i \in 1 .. Len(h) : h[i] = a[Len(a) - Len(h) + i]
    /\ resp.op = "history" =>
          /\ resp.total <= 20
          /\ resp.total = Len(session_get(chat_sessions, resp.session))
          /\ \A i \in 1 .. resp.total :
                /\ resp.messages[i].role = chat_sessions[resp.session][i].role
                /\ resp.messages[i].content = chat_sessions[resp.session][i].content

C8_Witness ==
    /\ resp.op = "history"
    /\ Len(appended[resp.session]) = 22
    /\ resp.total = 20
    /\ resp.messages[1].content = 2

\* the turns of a list come in adjacent pairs: every user turn is directly
\* followed by the assistant turn of the same message, and every assistant
\* turn directly follows the user turn of its message
PairedUp(lst) ==
    \A i \in 1 .. Len(lst) :
        IF lst[i].role = "user"
        THEN /\ i + 1 <= Len(lst)
             /\ lst[i + 1].role = "assistant"
             /\ lst[i + 1].content = lst[i].content
        ELSE /\ i - 1 >= 1
             /\ lst[i - 1].role = "user"
             /\ lst[i - 1].content = lst[i].content

\* C9: in every state, also while other handlers of the same session are
\* suspended, and in every history read, the two turns of an exchange are
\* adjacent: nothing lands or is observed between them.
C9_ExchangeAtomic ==
    /\ \A s \in DOMAIN chat_sessions : PairedUp(chat_sessions[s])
    /\ resp.op = "history" => PairedUp(resp.messages)

\* a handler has just stored its exchange while another one, which drew
\* its message earlier, is still suspended on the same session
C9_Witness ==
    /\ resp.op = "chat" /\ resp.status = 200
    /\ \E r \in inflight : r.session = resp.session /\ r.msg < resp.msg
    /\ Len(chat_sessions[resp.session]) = 20

\* C10: a history read of a session cleared and not appended to since is
\* empty; a clear succeeds whether or not the session exists, removes that
\* session only, changes nothing when the session does not exist, and
\* clearing again changes nothing.
C10_ClearThenGet ==
    /\ (resp.op = "history" /\ resp.session \in cleared)
          => (resp.messages = <<>> /\ resp.total = 0)
    /\ resp.op = "clear" =>
          /\ resp.status = 200
          /\ resp.session \notin DOMAIN chat_sessions
          /\ DOMAIN chat_sessions = DOMAIN resp.before \ {resp.session}
          /\ \A t \in DOMAIN chat_sessions : chat_sessions[t] = resp.before[t]
          /\ resp.session \notin DOMAIN resp.before => chat_sessions = resp.before
          /\ clear_session(chat_sessions, resp.session) = chat_sessions
    /\ \A s \in AllSessions :
          clear_session(clear_session(chat_sessions, s), s)
              = clear_session(chat_sessions, s)

C10_Witness ==
    /\ resp.op = "clear"
    /\ resp.session \in DOMAIN resp.before
    /\ Len(resp.before[resp.session]) = 20
    /\ \E t \in DOMAIN chat_sessions : Len(chat_sessions[t]) = 2

\* ------------------------------------------------- gateway chat properties
\* the attempts of one chat call are the primary provider, then, after it
\* failed, the secondary provider
AttemptsInOrder(a) ==
    /\ Len(a) <= 2
    /\ Len(a) >= 1 => a[1].p = "gemini"
    /\ Len(a) = 2 => a[2].p = "cerebras" /\ ~a[1].ok

AllFailed(a) == \A i \in DOMAIN a : ~a[i].ok

\* C11: in every chat call the primary provider is attempted first; the
\* secondary provider is contacted only after the primary attempt of the
\* same call failed; the template answers only after every provider
\* attempted in the call failed, or when no provider is configured; a
\* successful primary result is returned without contacting the secondary.
C11_ProviderOrder ==
    /\ \A r \in inflight :
          /\ r.call = "gemini" => r.attempts = <<>>
          /\ r.call = "cerebras" =>
                r.attempts = <<Attempt("gemini", FALSE)>>
    /\ resp.op = "chat" /\ resp.status = 200 =>
          /\ AttemptsInOrder(resp.attempts)
          /\ resp.by = "template" =>
                /\ AllFailed(resp.attempts)
                /\ resp.attempts = <<>> => ~llm.initialized
          /\ resp.by = "gemini" => resp.attempts = <<Attempt("gemini", TRUE)>>
          /\ resp.by = "cerebras" =>
                resp.attempts =
                    <<Attempt("gemini", FALSE), Attempt("cerebras", TRUE)>>

C11_Witness ==
    /\ resp.op = "chat" /\ resp.status = 200
    /\ resp.by = "cerebras"
    /\ llm.has_model
    /\ Len(resp.attempts) = 2

\* C12: when both providers fail during a query, chat still returns
\* non-empty text and the result reports ai_enabled = false; ai_enabled is
\* true only when a real model produced the returned text.
C12_FlagTellsWhoAnswered ==
    resp.op = "chat" /\ resp.status = 200 =>
        /\ Len(resp.attempts) = 2 /\ AllFailed(resp.attempts) =>
              resp.text.body # Blank /\ ~resp.ai_enabled
        /\ resp.ai_enabled => resp.by \in {"gemini", "cerebras"}

\* C13: a provider failure is never propagated out of chat: whatever the
\* primary and the secondary call come back with, chat returns a text and
\* the handler answers 200.
C13_FailureAbsorbed ==
    resp.op = "chat" /\ resp.status # 429 =>
        /\ resp.status = 200
        /\ resp.text.body \in {Reply, Blank}
        /\ resp.by \in {"gemini", "cerebras", "template"}
        /\ ~AllFailed(resp.attempts) \/ resp.by = "template"

C13_Witness ==
    /\ resp.op = "chat" /\ resp.status = 200
    /\ resp.attempts = <<Attempt("gemini", FALSE), Attempt("cerebras", FALSE)>>
    /\ resp.text.body = Reply

\* --------------------------------------------- structured call properties
\* the answer of the provider, as the method reads it
Answer == json_loads(clean(fn.r.text))
\* the answer is a well-formed instance of the expected schema
WellFormed ==
    /\ ~fn.r.raised
    /\ Answer.type = "object"
    /\ Has(Answer, "k")
    /\ ~Has(Answer, "x")

\* C14: with no credentials configured, constructing the gateway completes
\* without error and leaves it not initialized; a gateway that is not
\* initialized answers every structured call with the template.
C14_StartsWithoutCredentials ==
    /\ fn.op = "init" /\ fn.env = [gemini_api_key |-> FALSE, cerebras_api_key |-> FALSE] =>
          ~fn.made.raised /\ ~fn.made.obj.initialized
    /\ fn.op \in {"anomaly", "energy", "control"} /\ ~llm.initialized =>
          fn.result = Template \/ fn.status = 404

\* C15: in the structured endpoints every provider outcome that is not a
\* well-formed instance of the expected schema gives the template result,
\* and no error is surfaced to the caller.
C15_MalformedGivesTemplate ==
    fn.op \in {"anomaly", "energy", "control"} /\ fn.status # 404 /\ ~WellFormed =>
        fn.status = 200 /\ fn.result = Template

\* C16: for every JSON text J, J between a leading fence, with or without
\* the json tag, and a trailing fence parses to what J alone parses to.
C16_FenceTransparent ==
    fn.op = "parse" => fn.fenced = fn.plain

\* ---------------------------------------------------------- agent properties
\* the position of an intent in intent_keywords
Position(intent) == CHOOSE n \in DOMAIN KeywordIntents : KeywordIntents[n] = intent

\* C17: detect_intent returns general if and only if every score is 0;
\* otherwise it returns an intent whose score is the maximum, and among the
\* intents tied at the maximum the one declared first.
C17_FirstMaximalIntent ==
    fn.op = "detect_intent" =>
        /\ fn.intent = "general" <=> \A n \in DOMAIN fn.scores : fn.scores[n] = 0
        /\ fn.intent # "general" =>
              LET p == Position(fn.intent)
              IN  /\ \A n \in DOMAIN fn.scores : fn.scores[n] <= fn.scores[p]
                  /\ \A n \in 1 .. (p - 1) : fn.scores[n] < fn.scores[p]

\* "turn on": status (`on`) and control (`turn on`) tie; status is first
C17_Witness ==
    /\ fn.op = "detect_intent"
    /\ fn.intent = "status"
    /\ fn.scores[Position("control")] = fn.scores[Position("status")]
    /\ fn.scores[Position("status")] > 0

\* what one keyword adds to the score of its intent
Contribution(kw, t) ==
    IF WholeWord(kw, t) THEN 3 ELSE IF Contains(kw, t) THEN 1 ELSE 0

RECURSIVE SumContributions(_, _, _)
SumContributions(kws, t, n) ==
    IF n = 0 THEN 0
    ELSE Contribution(kws[n], t) + SumContributions(kws, t, n - 1)

\* C18: the score of an intent is the number of its keywords contained in
\* the lower-cased message plus twice the number of those matching as whole
\* words: a keyword adds 0 when absent, 1 when only inside a longer word
\* and 3 when it is a whole word.
C18_ScoreByKeyword ==
    fn.op = "detect_intent" =>
        \A n \in DOMAIN fn.scores :
            LET kws == intent_keywords[KeywordIntents[n]]
            IN  fn.scores[n] = SumContributions(kws, lower(fn.message), Len(kws))

\* "consumption": energy has the whole word, status only `on` inside it
C18_Witness ==
    /\ fn.op = "detect_intent"
    /\ fn.scores[Position("energy")] = 3
    /\ fn.scores[Position("status")] = 1
    /\ fn.intent = "energy"

\* the pattern of an entity type matches somewhere in t
Matches(entity_type, t) ==
    IF entity_type = "number"
    THEN \E i \in 1 .. Len(t) : number_at(t, i).num # <<>>
    ELSE \E i \in 1 .. Len(t), n \in DOMAIN entity_patterns[entity_type] :
            WordAt(entity_patterns[entity_type][n], t, i)

\* C19: in the result of extract_entities a key is present if and only if
\* its pattern matched at least once, and every present key maps to a
\* non-empty sequence of non-empty strings.
C19_EntitiesNonEmpty ==
    fn.op = "extract_entities" =>
        /\ \A n \in DOMAIN EntityTypes :
              EntityTypes[n] \in DOMAIN fn.entities
                  <=> Matches(EntityTypes[n], lower(fn.message))
        /\ \A e \in DOMAIN fn.entities :
              /\ fn.entities[e] # <<>>
              /\ \A i \in DOMAIN fn.entities[e] : fn.entities[e][i] # <<>>

\* "5 fan": the number has no unit, its empty second group is dropped
C19_Witness ==
    /\ fn.op = "extract_entities"
    /\ DOMAIN fn.entities = {"number", "load_name"}
    /\ fn.entities["number"] = <<(<<"5">>)>>

\* C20: the health status is critical if at least one alert is critical,
\* whatever the loads and the number of alerts; otherwise warning if there
\* are more than 3 alerts; otherwise healthy.
C20_HealthThresholds ==
    fn.op = "quick_insights" =>
        LET critical == \E i \in DOMAIN fn.alerts : fn.alerts[i] = "critical"
            status == fn.insights.health.status
        IN  /\ critical => status = "critical"
            /\ ~critical /\ Len(fn.alerts) >= 4 => status = "warning"
            /\ ~critical /\ Len(fn.alerts) <= 3 => status = "healthy"

\* three alerts, none critical
C20_Witness ==
    /\ fn.op = "quick_insights"
    /\ Len(fn.alerts) = 3
    /\ fn.insights.metrics.critical_alerts = 0
    /\ fn.insights.health.status = "healthy"

\* ------------------------------------------------------------ quick tips
\* a rule of _generate_quick_tips applies to the context and the hour
RuleFired(loads, alerts, hour) ==
    \/ \E i \in DOMAIN loads : loads[i].is_on /\ loads[i].current_power > 500
    \/ Len(alerts) > 0
    \/ hour \in 9..17
    \/ hour \in 22..23
    \/ hour \in 0..5

\* C21: quick_tips holds between 1 and 5 tips; the default tip is in it
\* exactly when no rule (active load above 500 W, alerts, peak or off-peak
\* hour) fired, and then it is the only tip.
C21_QuickTips ==
    fn.op = "quick_insights" =>
        LET tips == fn.insights.quick_tips
            default == \E i \in DOMAIN tips : tips[i] = "normal"
        IN  /\ Len(tips) >= 1
            /\ Len(tips) <= 5
            /\ default <=> ~RuleFired(fn.loads, fn.alerts, fn.hour)
            /\ default => tips = <<"normal">>

\* seven tips were generated (five loads above 500 W, alerts, peak hour)
\* and five were returned
C21_Witness ==
    /\ fn.op = "quick_insights"
    /\ Len(power_tips(fn.loads)) = 5
    /\ fn.alerts # <<>>
    /\ fn.hour = 12
    /\ Len(fn.insights.quick_tips) = 5

\* ------------------------------------------------------ quota rejections
\* C22: every refusal by the rate limiter in a handler of chat, anomaly
\* analysis or energy insights is answered with status 429, and the detail
\* carries the remaining, limit and reset_at the check returned.
C22_QuotaSurfaced ==
    (rl.op = "check" /\ ~rl.allowed) =>
        /\ resp.op \in {"chat"} \cup Endpoints
        /\ resp.status = 429
        /\ resp.remaining = rl.remaining
        /\ resp.limit = rl.limit
        /\ resp.reset_at = rl.reset_at

\* ------------------------------------------------------------- not found
\* C23: a control-recommendation or load-analysis request for a load that
\* is not in the context, and a history read for a session that does not
\* exist, are answered with 404, and no provider call is made for them.
C23_NotFound ==
    /\ (resp.op \in {"control", "load"} /\ resp.msg \notin ContextLoads) =>
           (resp.status = 404 /\ resp.attempts = <<>>)
    /\ (resp.op = "history" /\ resp.session \notin DOMAIN chat_sessions) =>
           (resp.status = 404 /\ resp.attempts = <<>>)

\* --------------------------------------------------------------- liveness
\* the messages of the chat requests of one run
MsgIds == (PriorExchanges + 1) .. (PriorExchanges + MaxMsgs)

\* C24: every admitted chat request is eventually answered: a provider call
\* that does not answer is ended by a timeout, and the handler moves on to
\* the next stage.
C24_AdmittedCompletes ==
    \A m \in MsgIds :
        (\E r \in inflight : r.msg = m) ~> (resp.op = "chat" /\ resp.msg = m)

\* ------------------------------------------------------------- guidance
\* C26: every intent, general included, has its own instruction; for the
\* alerts and the energy intent the instruction interpolates the alert
\* count of the context; for every other intent the instruction is the same
\* whatever the context.
C26_Guidance ==
    fn.op = "guidance" =>
        /\ fn.guidance.entry = fn.intent
        /\ fn.intent \in {"alerts", "energy"} =>
               fn.guidance.count =
                   Len(context_get(fn.heap, "system_context", "recentAlerts", <<>>))
        /\ fn.intent \notin {"alerts", "energy"} =>
               fn.guidance =
                   get_intent_guidance(fn.intent, EmptyContext, "system_context")

\* ------------------------------------------------- the caller's context
\* C25: after process_query has run, with the chat call and the fallback
\* responder it makes, every object of the caller's context (the dict and
\* the lists it refers to) has the keys and values it had before: the
\* analysis metadata is in another dict.
C25_ContextUnchanged ==
    fn.op = "process_query" =>
        /\ \A o \in DOMAIN fn.heap : fn.result.heap[o] = fn.heap[o]
        /\ "_analysis" \in DOMAIN fn.result.heap.enriched_context
        /\ "_analysis" \notin DOMAIN fn.result.heap.system_context

\* a query about a context with loads and an alert was analysed
C25_Witness ==
    /\ fn.op = "process_query"
    /\ DOMAIN fn.heap.system_context # {}
    /\ fn.result.intent = "energy"
    /\ fn.result.heap.enriched_context._analysis.intent = "energy"

\* ------------------------------------------------- check, work, increment
\* C27: an increment_count made by a request handler is preceded, in the
\* same handler, by a check_rate_limit for the same user and action type
\* that returned allowed = true.
C27_CheckBeforeIncrement ==
    rl.op = "increment" =>
        /\ rl.rate_check.result.allowed
        /\ rl.rate_check.user = rl.user
        /\ rl.rate_check.action = rl.action

\* an energy-insights handler of u2 that was suspended in its provider call
\* has counted its request while a chat handler of u1, checked under the
\* chat key of u1, is in flight
C27_Witness ==
    /\ rl.op = "increment"
    /\ rl.user = "u2"
    /\ rl.action = "analysis"
    /\ resp.op = "insights"
    /\ resp.attempts # <<>>
    /\ rl.rate_check.result.allowed
    /\ \E r \in inflight :
          /\ r.user = "u1"
          /\ r.rate_check = RateCheck("u1", "chat", r.rate_check.result)

\* the count stored for the user of the last chat response
ChatCount(L, u) == Get(L[u]["chat"].count, 0)

\* C28: a chat request refused by the rate limiter, or ended by an internal
\* error, leaves every session, the count and the handlers in flight as they
\* were and has made no provider call; a chat request answered with 200
\* appends one user/assistant pair to its session and adds one to the count;
\* no other step of a chat handler changes a session.
\* (a step that moves the clock sends no response: resp is the one of an
\* earlier step)
C28_Step ==
    now' = now =>
        /\ (resp'.op = "chat" /\ resp'.status = 429) =>
               /\ chat_sessions' = chat_sessions
               /\ limits' = limits
               /\ inflight' = inflight
               /\ resp'.attempts = <<>>
        /\ (resp'.op = "chat" /\ resp'.status = 500) =>
               /\ chat_sessions' = chat_sessions
               /\ limits' = limits
        /\ (resp'.op = "chat" /\ resp'.status = 200) =>
               /\ session_get(chat_sessions', resp'.session) =
                      truncate(session_get(chat_sessions, resp'.session)
                               \o <<Turn("user", resp'.msg), Turn("assistant", resp'.msg)>>)
               /\ \A s \in DOMAIN chat_sessions \ {resp'.session} :
                      s \in DOMAIN chat_sessions' /\ chat_sessions'[s] = chat_sessions[s]
               /\ rl'.op = "increment"
               /\ ChatCount(limits', resp'.user) = rl'.pre.count + 1
        /\ (chat_sessions' # chat_sessions) =>
               \/ resp'.op = "chat" /\ resp'.status = 200
               \/ resp'.op = "clear"

\* C28: the counter is incremented and the history appended only by a chat
\* request that succeeds, one pair and one count per request; a refused or
\* failed request changes neither.
C28_OnlyOnSuccess == [][C28_Step]_vars

\* a request that waited for a provider was answered and counted as the
\* 100th of its window, and its pair is the end of its session
C28_Witness ==
    /\ resp.op = "chat"
    /\ resp.status = 200
    /\ resp.attempts # <<>>
    /\ rl.new_count = CHAT_DAILY_LIMIT
    /\ Len(chat_sessions[resp.session]) = HISTORY_CAP

\* ------------------------------------------------------------- the lock
\* the step that ends the block handler r is inside
Leaves(r) ==
    \/ ChatChecked(r)
    \/ \E q \in PlainRequests : ChatCounted(r, q)
    \/ StatusRead(r)
    \/ StatusChecked(r)

\* the provider call of handler r returns a text, and r enters the block
\* of increment_count
Counts(r) ==
    \/ GeminiAnswers(r, "text")
    \/ CerebrasAnswers(r, "text")

\* C29: at most one handler is inside a block of the rate limiter, and the
\* lock is held exactly while one is; a handler suspended in a provider
\* call holds no lock: while it waits and no other handler is inside a
\* block the lock is free, a request of either user can enter the block of
\* a check, every other suspended handler can enter the block of its
\* increment when its provider answers, and a handler inside a block can
\* always leave it.
C29_LockFree ==
    /\ Cardinality(Inside) <= 1
    /\ lock = Held <=> Inside # {}
    /\ lock \in {Free, Held}
    /\ \A r \in Inside : ENABLED Leaves(r)
    /\ (Pending # {} /\ Inside = {}) =>
          /\ lock = Free
          /\ \A u \in Users : ENABLED StatusEnters(u)
          /\ (Cardinality(inflight) < MaxHandlers /\ sent < MaxMsgs) =>
                 \A u \in Users : ENABLED ChatEnters(u, "s1")
          /\ \A r \in Pending : ENABLED Counts(r)

\* a chat request of u2 was checked, answered by its provider and has just
\* been counted, all while the provider call of a request of u1, admitted
\* before it, is pending
C29_Witness ==
    /\ rl.op = "increment"
    /\ rl.user = "u2"
    /\ resp.status = 200
    /\ resp.attempts # <<>>
    /\ lock = Free
    /\ \E r \in Pending : r.user = "u1" /\ r.msg < resp.msg

\* ---------------------------------------------------- history in the prompt
\* C30: the prompt holds the last 6 turns of the history supplied (all of
\* them when there are 6 or fewer), in their order, each labelled User for
\* the role user and Assistant for any other; the section is left out for
\* an empty history.  The history a chat handler supplies is its session as
\* stored when the prompt is composed; the handler is then suspended, and
\* neither turn of its exchange is in the store, in the history or in the
\* prompt's history section.
C30_PromptHistory ==
    fn.op = "prompt" =>
        LET h == fn.chat_history
            c == fn.prompt.conversation_context
            skip == IF Len(h) > 6 THEN Len(h) - 6 ELSE 0
        IN  /\ Len(c) = Len(h) - skip
            /\ Len(c) <= 6
            /\ \A i \in 1 .. Len(c) :
                   /\ c[i].content = h[skip + i].content
                   /\ c[i].label = IF h[skip + i].role = "user"
                                   THEN "User" ELSE "Assistant"
            /\ fn.prompt.history_section <=> (h # <<>>)
            /\ fn.prompt.user_question = fn.message
            /\ fn.session # "" =>
                   /\ h = session_get(chat_sessions, fn.session)
                   /\ \E r \in inflight :
                          /\ r.msg = fn.message
                          /\ r.session = fn.session
                          /\ r.call \in {"gemini", "cerebras"}
                   /\ \A t \in TurnsOf(ExchangeOf(fn.message)) :
                          /\ t \notin TurnsOf(session_get(chat_sessions, fn.session))
                          /\ t \notin TurnsOf(appended[fn.session])
                          /\ t \notin TurnsOf(h)
                          /\ \A i \in 1 .. Len(c) : c[i].content # t.content

\* a handler suspended in its provider call: its session held four
\* exchanges when the prompt was composed, the first of them is left out
\* of the prompt and the last three are in it, in order
C30_Witness ==
    /\ fn.op = "prompt"
    /\ fn.session = "s1"
    /\ Len(fn.chat_history) = PROMPT_TURNS + 2
    /\ Len(fn.prompt.conversation_context) = PROMPT_TURNS
    /\ fn.prompt.conversation_context[1] =
          [label |-> "User", content |-> fn.chat_history[3].content]
    /\ fn.prompt.conversation_context[PROMPT_TURNS] =
          [label |-> "Assistant", content |-> fn.message - 1]
    /\ \E r \in inflight : r.msg = fn.message /\ r.call = "gemini"

\* ------------------------------------------------ the fallback responder
\* C31: the fallback responder chooses one template by the first matching
\* branch in the order status, alerts, energy, default: a message that
\* contains a status word gets the status template whatever else it
\* contains, an alert word without a status word the alerts template (its
\* variant without alerts when the context has none), an energy word with
\* neither the energy template, any other message the default template; and
\* the values printed are those of the context given.
C31_FallbackOrder ==
    fn.op = "fallback" =>
        LET m == lower(fn.message)
            st == \E w \in StatusWords : Contains(w, m)
            al == \E w \in AlertWords : Contains(w, m)
            en == \E w \in EnergyWords : Contains(w, m)
            loads == context_get(fn.heap, "system_context", "loads", <<>>)
            alerts == context_get(fn.heap, "system_context", "recentAlerts", <<>>)
            t == fn.response.template
        IN  /\ st => t = "status"
            /\ ~st /\ al => t \in {"alerts", "no_alerts"}
            /\ ~st /\ ~al /\ en => t = "energy"
            /\ ~st /\ ~al /\ ~en => t = "default"
            /\ t = "status" => /\ Len(fn.response.load_lines) = Len(loads)
                               /\ fn.response.alert_count = Len(alerts)
            /\ t = "alerts" => /\ alerts # <<>>
                               /\ Len(fn.response.alert_lines) <= 5
            /\ t = "no_alerts" => alerts = <<>>
            /\ t \in {"energy", "default"} =>
                  fn.response.total_power = total_power(loads)

\* a message with a status word inside another word, and an alert word,
\* answered from a context with alerts by the status template
C31_Witness ==
    /\ fn.op = "fallback"
    /\ fn.message = <<"s","h","o","w"," ","a","l","e","r","t">>
    /\ context_get(fn.heap, "system_context", "recentAlerts", <<>>) # <<>>
    /\ fn.response.template = "status"

\* ------------------------------------------------- the quota under load
\* C32: with at most QuotaHandlers chat handlers of one user in flight,
\* each doing check, work, increment, the count of the key never exceeds
\* limit + QuotaHandlers - 1, and a check made in a window whose count has
\* reached the limit is refused.
C32_BoundedOvershoot ==
    /\ \A u \in ChatUsers :
          Get(limits[u]["chat"].count, 0) <= CHAT_DAILY_LIMIT + QuotaHandlers - 1
    /\ (rl.op = "check" /\ InWindow /\ rl.pre.count >= rl.limit) => ~rl.allowed

\* the count has gone past the limit by QuotaHandlers - 1 and a chat
\* request of the same window has just been refused
C32_Witness ==
    /\ rl.op = "check"
    /\ InWindow
    /\ rl.pre.count = CHAT_DAILY_LIMIT + QuotaHandlers - 1
    /\ ~rl.allowed
    /\ resp.op = "chat"
    /\ resp.status = 429

\* ------------------------------------------- clear during an exchange

\* a chat response is sent and its exchange stored in a session that was
\* cleared and has not been appended to since
CompletesAfterClear ==
    /\ chat_sessions' # chat_sessions
    /\ resp'.op = "chat"
    /\ resp'.status = 200
    /\ resp'.session \in cleared

C33_Step ==
    /\ \A s \in DOMAIN chat_sessions' :
          TurnsOf(chat_sessions'[s]) \subseteq TurnsOf(appended'[s])
    /\ CompletesAfterClear =>
          chat_sessions'[resp'.session] = ExchangeOf(resp'.msg)

\* C33: turns removed by a clear never reappear: every session holds only
\* turns appended since its last clear, and an exchange that completes in a
\* session cleared while it was suspended leaves that session with its own
\* user/assistant pair only.
C33_ClearedStaysCleared == [][C33_Step]_vars

\* a clear has just removed the 18 turns of a session while an exchange of
\* that session, admitted before, is suspended in its provider call
C33_Witness ==
    /\ resp.op = "clear"
    /\ resp.session \in DOMAIN resp.before
    /\ Len(resp.before[resp.session]) = 2 * PriorExchanges
    /\ resp.session \notin DOMAIN chat_sessions
    /\ \E r \in inflight : r.session = resp.session /\ r.call \in {"gemini", "cerebras"}

\* ------------------------------------------------- the shape of a session
\* C34: in every state each session's history has even length and
\* alternates user, assistant, user, assistant, from a user turn to an
\* assistant turn; the cap of 20 entries removes whole pairs, so this also
\* holds after a truncation.
C34_Alternates ==
    \A s \in DOMAIN chat_sessions :
        LET h == chat_sessions[s]
        IN  /\ Len(h) % 2 = 0
            /\ \A i \in 1 .. Len(h) :
                  h[i].role = IF i % 2 = 1 THEN "user" ELSE "assistant"

\* a response whose exchange made the session pass the cap: the oldest
\* pair is gone and the history starts with the user turn of the second
C34_Witness ==
    /\ resp.op = "chat"
    /\ resp.status = 200
    /\ Len(appended[resp.session]) = HISTORY_CAP + 2
    /\ Len(chat_sessions[resp.session]) = HISTORY_CAP
    /\ chat_sessions[resp.session][1] = Turn("user", 2)

\* ---------------------------------------------------- isolation of keys
OtherKeysKept(u, a) ==
    \A v \in Users, b \in Actions :
        <<v, b>> # <<u, a>> => limits'[v][b] = limits[v][b]

OtherSessionsKept(s) ==
    /\ DOMAIN chat_sessions' \ {s} = DOMAIN chat_sessions \ {s}
    /\ \A t \in DOMAIN chat_sessions \ {s} : chat_sessions'[t] = chat_sessions[t]

C35_Step ==
    /\ (rl'.op \in {"check", "increment", "reset"} /\ rl'.action # NoAction)
          => OtherKeysKept(rl'.user, rl'.action)
    /\ (rl'.op = "reset" /\ rl'.action = NoAction)
          => \A v \in Users \ {rl'.user} : limits'[v] = limits[v]
    /\ resp'.op \in {"chat", "clear"} => OtherSessionsKept(resp'.session)

\* C35: a check, an increment or a reset on (user, action) leaves the entry
\* of every other (user, action) as it was (a reset without an action type
\* leaves every other user's entries), and an append or a clear on one
\* session leaves every other session as it was.
C35_KeysIsolated == [][C35_Step]_vars

\* a chat request answered: its check and increment on (u1, chat) and its
\* append to one session, while (u1, analysis), both keys of u2 and the
\* other session hold state
C35_Witness ==
    /\ resp.op = "chat"
    /\ resp.status = 200
    /\ rl.op = "increment"
    /\ \A v \in Users, b \in Actions :
          <<v, b>> # <<rl.user, rl.action>> => limits[v][b].count = MaxCount - 1
    /\ \E t \in DOMAIN chat_sessions \ {resp.session} : Len(chat_sessions[t]) > 0

\* ------------------------------------------------ quota accounting
Count(L, u, a) == Get(L[u][a].count, 0)

\* the last limiter call of the step counted one request under (u, a),
\* admitted by a check of that key against limit, and left key b alone
CountedUnder(u, a, limit, b) ==
    /\ rl'.op = "increment"
    /\ rl'.user = u
    /\ rl'.action = a
    /\ Count(limits', u, a) = Get(rl'.pre.count, 0) + 1
    /\ rl'.rate_check = RateCheck(u, a, rl'.rate_check.result)
    /\ rl'.rate_check.result.allowed
    /\ rl'.rate_check.result.limit = limit
    /\ rl'.rate_check.result.current_count < limit
    /\ limits'[u][b] = limits[u][b]

\* the accounting by key, step by step: where each response is counted
C36_Step ==
    now' = now =>
        /\ (resp'.op \in Endpoints /\ resp'.status = 200)
              => CountedUnder(resp'.user, "analysis", ANALYSIS_DAILY_LIMIT, "chat")
        /\ (resp'.op \in Endpoints /\ resp'.status = 429)
              => /\ rl'.op = "check"
                 /\ rl'.action = "analysis"
                 /\ rl'.current_count >= ANALYSIS_DAILY_LIMIT
                 /\ limits'[resp'.user]["chat"] = limits[resp'.user]["chat"]
        /\ (resp'.op = "chat" /\ resp'.status = 200)
              => CountedUnder(resp'.user, "chat", CHAT_DAILY_LIMIT, "analysis")
        /\ resp'.op = "rate-limit"
              => /\ rl'.op = "check"
                 /\ rl'.action = "chat"
                 /\ incs' = incs_after_check(incs, limits, now, resp'.user, "chat")
                 /\ limits'[resp'.user]["analysis"] = limits[resp'.user]["analysis"]
                 /\ Count(limits', resp'.user, "chat") =
                       IF needs_reset(limits[resp'.user]["chat"], now) THEN 0
                       ELSE Count(limits, resp'.user, "chat")

\* the requests counted under (user, "analysis") in the current window are
\* within the analysis limit
C36_Limited ==
    \A u \in Users : Count(limits, u, "analysis") <= ANALYSIS_DAILY_LIMIT

\* C36: anomaly analysis and energy insights count their requests under
\* the one key (user, "analysis"), and the requests of both counted in a
\* window are together within the analysis limit; chat counts under
\* (user, "chat") only; a read of the rate-limit status makes a check of
\* the chat key and no increment, so it leaves every count of the current
\* window as it was.  (The accounting by key holds in every step; the
\* limit on the shared count does not.)
C36_QuotaByEndpoint == []C36_Limited /\ [][C36_Step]_vars

\* ------------------------------------------ the structured operations
StructuredOps == {"anomaly", "energy", "control", "summary"}

\* C37: analyze_anomalies, get_control_recommendation,
\* generate_energy_insights and generate_daily_summary never send a request
\* to the secondary provider: a call whose primary request raised returns
\* the template result, having contacted the primary provider only, and
\* with a gateway that is initialized without a model object every call
\* returns the template result and contacts no provider.  (The first half
\* holds; generate_energy_insights raises where its template is due.)
C37_StructuredPrimaryOnly ==
    fn.op \in StructuredOps =>
        /\ \A i \in DOMAIN fn.contacted : fn.contacted[i] = "gemini"
        /\ Len(fn.contacted) <= 1
        /\ fn.r.raised => fn.result.kind = "template"
        /\ (llm.initialized /\ ~llm.has_model) =>
              /\ fn.result.kind = "template"
              /\ fn.contacted = <<>>

\* ------------------------------------- system health and quick insights
MetricsOrdered(m) ==
    /\ m.critical_alerts <= m.active_alerts
    /\ m.active_loads <= m.total_loads

\* C38: on the same loads and alerts, the status of get_system_health is
\* the health.status of get_quick_insights and their metrics (total power,
\* active loads, total loads, active alerts, critical alerts) are equal,
\* with critical_alerts <= active_alerts and active_loads <= total_loads in
\* both.
C38_HealthAgrees ==
    /\ fn.op = "system_health" =>
          /\ MetricsOrdered(fn.health.metrics)
          /\ \A hour \in Hours :
                LET q == get_quick_insights(fn.loads, fn.alerts, hour)
                IN  /\ fn.health.status = q.health.status
                    /\ fn.health.metrics = q.metrics
    /\ fn.op = "quick_insights" =>
          /\ MetricsOrdered(fn.insights.metrics)
          /\ fn.insights.health.status
                = get_system_health(fn.loads, fn.alerts).status
          /\ fn.insights.metrics = get_system_health(fn.loads, fn.alerts).metrics

\* the system health of a context with loads on and off and three alerts,
\* none critical: healthy, as the quick insights say
C38_Witness ==
    /\ fn.op = "system_health"
    /\ Len(fn.alerts) = 3
    /\ count_critical(fn.alerts) = 0
    /\ fn.health.status = "healthy"
    /\ fn.health.metrics.active_loads = 2
    /\ fn.health.metrics.total_loads = 3
    /\ get_quick_insights(fn.loads, fn.alerts, 12).health.status = "healthy"

====
